---------------------------- MODULE Spec2Model ----------------------------
(***************************************************************************)
(* Speaker-aware dynamic cropping engine of clip_generator:                *)
(*   FaceTracker        (face_tracker.py)                                   *)
(*   LipSyncDetector / MultiPersonLipSync (lip_sync_detector.py)            *)
(*   SmartCropper       (smart_cropper.py)                                  *)
(*   VideoProcessor.process_video (video_processor.py)                      *)
(*                                                                         *)
(* Normalised coordinates (Python floats in [0,1]) are rationals: a face   *)
(* record carries integer numerators and a common denominator `den`.       *)
(* int(...) of a float is truncation toward zero of the exact rational.    *)
(***************************************************************************)
EXTENDS Integers, Sequences, FiniteSets, TLC

(***************************************************************************)
(* Program constants                                                       *)
(***************************************************************************)
OUTPUT_FPS == 30
SMOOTHING_WINDOW == 15
MIN_CROP_WIDTH == 480
MAX_ZOOM == 2
smoothing_window == 20
min_speaker_switch_frames == 15
window_size == 10
num_faces == 4
\* target_aspect = 9/16, as numerator and denominator
ASPECT_W == 9
ASPECT_H == 16
\* HORIZONTAL_MARGIN = 1.5 = 3/2, VERTICAL_MARGIN = 2.0 = 2/1
HORIZONTAL_MARGIN == <<3, 2>>
VERTICAL_MARGIN == <<2, 1>>
\* FACE_VERTICAL_POSITION = 0.35 = 7/20
FACE_VERTICAL_POSITION == <<7, 20>>
\* current_speaker_id = None
NoSpeaker == -1

(***************************************************************************)
(* Bounds of the model                                                     *)
(***************************************************************************)
\* normalised coordinates are multiples of 1/Grid
Grid == 4
\* frames read per process_video run
MaxFrames == 4
\* faces handed to identify_active_speaker in one call
MaxFaces == 2

(***************************************************************************)
(* Arithmetic helpers                                                      *)
(***************************************************************************)
\* Python int(a / b) for b > 0: truncation toward zero
Trunc(a, b) == IF a >= 0 THEN a \div b ELSE -((-a) \div b)

Max(a, b) == IF a >= b THEN a ELSE b

Min(a, b) == IF a <= b THEN a ELSE b

Abs(a) == IF a >= 0 THEN a ELSE -a

\* a full queue that refuses the new element
deque_append_drops_newest(q, x, maxlen) ==
    IF Len(q) < maxlen THEN Append(q, x) ELSE q

\* deque(maxlen=n).append(x)
deque_append(q, x, maxlen) ==
    IF Len(q) < maxlen THEN Append(q, x) ELSE Append(Tail(q), x)

RECURSIVE SumSeq(_)
SumSeq(s) == IF s = <<>> THEN 0 ELSE Head(s) + SumSeq(Tail(s))

\* np.exp(np.linspace(-2, 0, n)), in thousandths
ExpTable ==
    << <<135>>,
       <<135, 1000>>,
       <<135, 368, 1000>>,
       <<135, 264, 513, 1000>>,
       <<135, 223, 368, 607, 1000>>,
       <<135, 202, 301, 449, 670, 1000>>,
       <<135, 189, 264, 368, 513, 717, 1000>>,
       <<135, 180, 240, 319, 424, 565, 751, 1000>>,
       <<135, 174, 223, 287, 368, 472, 607, 779, 1000>>,
       <<135, 169, 211, 264, 329, 411, 513, 641, 801, 1000>>,
       <<135, 165, 202, 247, 301, 368, 449, 549, 670, 819, 1000>>,
       <<135, 162, 195, 234, 280, 336, 403, 483, 580, 695, 834, 1000>>,
       <<135, 160, 189, 223, 264, 311, 368, 435, 513, 607, 717, 846, 1000>>,
       <<135, 158, 184, 215, 250, 292, 341, 397, 463, 540, 630, 735, 857, 1000>>,
       <<135, 156, 180, 208, 240, 276, 319, 368, 424, 490, 565, 651, 751, 867, 1000>>,
       <<135, 155, 177, 202, 231, 264, 301, 344, 393, 449, 513, 587, 670, 766, 875, 1000>>,
       <<135, 153, 174, 197, 223, 253, 287, 325, 368, 417, 472, 535, 607, 687, 779, 882, 1000>>,
       <<135, 152, 171, 193, 217, 244, 274, 308, 347, 390, 439, 494, 555, 625, 703, 790, 889, 1000>>,
       <<135, 151, 169, 189, 211, 236, 264, 295, 329, 368, 411, 459, 513, 574, 641, 717, 801, 895, 1000>>,
       <<135, 150, 167, 186, 206, 229, 255, 283, 314, 349, 388, 431, 479, 532, 591, 656, 729, 810, 900, 1000>> >>

\* weights = np.exp(np.linspace(-2, 0, n)); the division by weights.sum()
\* is kept as the common denominator SumSeq(exp_weights(n))
exp_weights(n) == ExpTable[n]

\* sum(w * v for w, v in zip(weights, values)), numerator over SumSeq(weights)
RECURSIVE weighted_sum(_, _)
weighted_sum(w, v) ==
    IF w = <<>> \/ v = <<>> THEN 0
    ELSE Head(w) * Head(v) + weighted_sum(Tail(w), Tail(v))

(***************************************************************************)
(* FaceTracker.calculate_crop_box                                          *)
(***************************************************************************)
\* if face_data is None: maximal centred crop of the target aspect ratio
default_center_crop(frame_width, frame_height) ==
    LET h0 == frame_height
        w0 == Trunc(h0 * ASPECT_W, ASPECT_H)
        cw == IF w0 > frame_width THEN frame_width ELSE w0
        ch == IF w0 > frame_width THEN Trunc(frame_width * ASPECT_H, ASPECT_W) ELSE h0
    IN  << (frame_width - cw) \div 2, (frame_height - ch) \div 2, cw, ch >>

\* eyes centre when available, else the bounding-box centre (numerators)
focus_point(face) ==
    IF face.eyes_center # <<>> THEN face.eyes_center
    ELSE << face.x_center, face.y_center >>

\* crop_dimensions without the minimum crop size
crop_dimensions_no_minimum(face_w, face_h, frame_width) ==
    LET w1 == Max(face_w, Trunc(face_h * ASPECT_W, ASPECT_H))
        max_crop_width == frame_width \div MAX_ZOOM
        w3 == IF w1 > max_crop_width THEN max_crop_width ELSE w1
    IN  << w3, Trunc(w3 * ASPECT_H, ASPECT_W) >>

\* crop dimensions: max of the two candidates, then minimum size, then maximum zoom
crop_dimensions(face_w, face_h, frame_width) ==
    LET w1 == Max(face_w, Trunc(face_h * ASPECT_W, ASPECT_H))
        w2 == IF w1 < MIN_CROP_WIDTH THEN MIN_CROP_WIDTH ELSE w1
        max_crop_width == frame_width \div MAX_ZOOM
        w3 == IF w2 > max_crop_width THEN max_crop_width ELSE w2
    IN  << w3, Trunc(w3 * ASPECT_H, ASPECT_W) >>

\* crop_origin without the clamp into the frame
crop_origin_unclamped(face_x, face_y, crop_width, crop_height, frame_width, frame_height) ==
    << face_x - (crop_width \div 2),
       Trunc(face_y * FACE_VERTICAL_POSITION[2] - crop_height * FACE_VERTICAL_POSITION[1],
             FACE_VERTICAL_POSITION[2]) >>

\* centre horizontally on the anchor, anchor at FACE_VERTICAL_POSITION from the
\* crop's top, then clamp the origin into the frame
crop_origin(face_x, face_y, crop_width, crop_height, frame_width, frame_height) ==
    LET x0 == face_x - (crop_width \div 2)
        y0 == Trunc(face_y * FACE_VERTICAL_POSITION[2] - crop_height * FACE_VERTICAL_POSITION[1],
                    FACE_VERTICAL_POSITION[2])
    IN  << Max(0, Min(x0, frame_width - crop_width)),
           Max(0, Min(y0, frame_height - crop_height)) >>

\* shrink_to_frame that cuts the height without recomputing the width
shrink_to_frame_keep_width(crop_x, crop_y, crop_width, crop_height, frame_width, frame_height) ==
    LET w1 == IF crop_x + crop_width > frame_width THEN frame_width - crop_x ELSE crop_width
        h1 == IF crop_x + crop_width > frame_width THEN Trunc(w1 * ASPECT_H, ASPECT_W) ELSE crop_height
        h2 == IF crop_y + h1 > frame_height THEN frame_height - crop_y ELSE h1
    IN  << crop_x, crop_y, w1, h2 >>

\* crop dimensions must not exceed the frame
shrink_to_frame(crop_x, crop_y, crop_width, crop_height, frame_width, frame_height) ==
    LET w1 == IF crop_x + crop_width > frame_width THEN frame_width - crop_x ELSE crop_width
        h1 == IF crop_x + crop_width > frame_width THEN Trunc(w1 * ASPECT_H, ASPECT_W) ELSE crop_height
        h2 == IF crop_y + h1 > frame_height THEN frame_height - crop_y ELSE h1
        w2 == IF crop_y + h1 > frame_height THEN Trunc(h2 * ASPECT_W, ASPECT_H) ELSE w1
    IN  << crop_x, crop_y, w2, h2 >>

\* face is <<>> (None) or <<face_data>>
calculate_crop_box(face, frame_width, frame_height) ==
    IF face = <<>> THEN default_center_crop(frame_width, frame_height)
    ELSE
      LET fd == face[1]
          focus == focus_point(fd)
          face_x == Trunc(focus[1] * frame_width, fd.den)
          face_y == Trunc(focus[2] * frame_height, fd.den)
          face_w == Trunc(fd.width * frame_width * HORIZONTAL_MARGIN[1], fd.den * HORIZONTAL_MARGIN[2])
          face_h == Trunc(fd.height * frame_height * VERTICAL_MARGIN[1], fd.den * VERTICAL_MARGIN[2])
          dims == crop_dimensions(face_w, face_h, frame_width)
          org == crop_origin(face_x, face_y, dims[1], dims[2], frame_width, frame_height)
      IN  shrink_to_frame(org[1], org[2], dims[1], dims[2], frame_width, frame_height)

(***************************************************************************)
(* SmartCropper.calculate_smart_crop                                       *)
(***************************************************************************)
\* faces is a sequence of face_data, active_speaker_id an index from 0 or NoSpeaker
calculate_smart_crop(faces, active_speaker_id, frame_width, frame_height) ==
    IF faces = <<>> \/ active_speaker_id = NoSpeaker
    THEN LET ch0 == frame_height
             cw0 == Trunc(ch0 * 9, 16)
             cw == IF cw0 > frame_width THEN frame_width ELSE cw0
             ch == IF cw0 > frame_width THEN Trunc(frame_width * 16, 9) ELSE ch0
         IN  << (frame_width - cw) \div 2, (frame_height - ch) \div 2, cw, ch >>
    ELSE LET active_face == IF active_speaker_id < Len(faces)
                            THEN faces[active_speaker_id + 1] ELSE faces[1]
         IN  calculate_crop_box(<<active_face>>, frame_width, frame_height)


(***************************************************************************)
(* FaceTracker.get_smoothed_position                                       *)
(***************************************************************************)
\* the column of one field over a history
RECURSIVE field_of(_, _)
field_of(history, name) ==
    IF history = <<>> THEN <<>>
    ELSE <<Head(history)[name]>> \o field_of(Tail(history), name)

\* the eyes-centre coordinate i (1 or 2) over the landmark history
RECURSIVE eyes_of(_, _)
eyes_of(history, i) ==
    IF history = <<>> THEN <<>>
    ELSE <<Head(history)[i]>> \o eyes_of(Tail(history), i)

\* weights[-k:]
last_k(w, k) == SubSeq(w, Len(w) - k + 1, Len(w))

\* the exponentially weighted average of the histories (lines 167-194); the
\* normalised weights are kept as the common denominator, so every field is
\* scaled to den * sum(weights)
weighted_face(face_data_, ph, lh) ==
    LET weights == exp_weights(Len(ph))
        total == SumSeq(weights)
        lw == last_k(weights, Len(lh))
        ltotal == SumSeq(lw)
    IN  [ x_center |-> weighted_sum(weights, field_of(ph, "x_center")),
          y_center |-> weighted_sum(weights, field_of(ph, "y_center")),
          width |-> weighted_sum(weights, field_of(ph, "width")),
          height |-> weighted_sum(weights, field_of(ph, "height")),
          eyes_center |->
              IF Len(lh) > 1
              THEN \* np.average(..., weights=weights[-len(landmark_history):]),
                   \* rescaled from ltotal to the common denominator
                   << (weighted_sum(lw, eyes_of(lh, 1)) * total) \div ltotal,
                      (weighted_sum(lw, eyes_of(lh, 2)) * total) \div ltotal >>
              ELSE IF face_data_.eyes_center = <<>> THEN <<>>
                   ELSE << face_data_.eyes_center[1] * total, face_data_.eyes_center[2] * total >>,
          landmarks |-> face_data_.landmarks,
          den |-> face_data_.den * total ]

\* face is <<>> (None) or <<face_data>>; returns the value handed back
\* (<<>> for None) and the two histories
get_smoothed_position(face, ph, lh) ==
    IF face = <<>>
    THEN [ ret |-> IF ph # <<>> THEN <<ph[Len(ph)]>> ELSE <<>>,
           position_history |-> ph, landmark_history |-> lh ]
    ELSE LET ph1 == deque_append(ph, face[1], SMOOTHING_WINDOW)
             lh1 == IF face[1].landmarks
                    THEN deque_append(lh, face[1].eyes_center, SMOOTHING_WINDOW)
                    ELSE lh
         IN  [ ret |-> IF Len(ph1) < 2 THEN face ELSE << weighted_face(face[1], ph1, lh1) >>,
               position_history |-> ph1, landmark_history |-> lh1 ]

(***************************************************************************)
(* SmartCropper.smooth_crop_box                                            *)
(***************************************************************************)
RECURSIVE column(_, _)
column(history, i) ==
    IF history = <<>> THEN <<>>
    ELSE <<Head(history)[i]>> \o column(Tail(history), i)

AllEqual(s) == \A i \in 1 .. Len(s) : s[i] = s[1]

\* int(v) of the float weighted average v of the samples.  The weights are
\* irrational, so the exact average is an integer only when all samples are
\* equal; the float result is then that integer up to rounding error, and
\* int() truncates a result that fell just below it.  `below` tells whether
\* the float average of this many equal samples falls below the sample.
int_of_average(weights, samples, below) ==
    IF AllEqual(samples) /\ samples[1] > 0 /\ below
    THEN samples[1] - 1
    ELSE Trunc(weighted_sum(weights, samples), SumSeq(weights))

\* returns the smoothed box and the history; float_below_ is the set of
\* history lengths at which the float average falls below equal samples
smooth_crop_box(crop_box, history, float_below_) ==
    LET h1 == deque_append(history, crop_box, smoothing_window)
        weights == exp_weights(Len(h1))
        low == Len(h1) \in float_below_
    IN  [ ret |-> IF Len(h1) < 2 THEN crop_box
                  ELSE << int_of_average(weights, column(h1, 1), low),
                          int_of_average(weights, column(h1, 2), low),
                          int_of_average(weights, column(h1, 3), low),
                          int_of_average(weights, column(h1, 4), low) >>,
          crop_history |-> h1 ]

(***************************************************************************)
(* LipSyncDetector / MultiPersonLipSync                                    *)
(* A detector's mouth_history and audio_history are represented by their   *)
(* lengths; the samples enter only through the correlation, which is an    *)
(* input (in hundredths) of is_speaking.                                   *)
(***************************************************************************)
\* is_speaking: append to both histories, then no confidence before half the
\* window has accumulated; otherwise the correlation if it passes the 0.3
\* threshold together with the mouth-opening and audio-energy tests (the
\* input conf is 0 when they do not pass)
is_speaking(detector, conf) ==
    LET m1 == Min(detector.mouth_history + 1, window_size)
        a1 == Min(detector.audio_history + 1, window_size)
    IN  [ confidence |-> IF m1 < window_size \div 2 THEN 0 ELSE conf,
          detector |-> [ mouth_history |-> m1, audio_history |-> a1 ] ]

\* scores.sort(key=confidence, reverse=True) is stable: the first face with
\* the highest confidence leads
RECURSIVE best_score(_, _)
best_score(scores, i) ==
    IF i > Len(scores) THEN 0
    ELSE LET rest == best_score(scores, i + 1)
         IN  IF rest # 0 /\ scores[rest] > scores[i] THEN rest ELSE i

\* analyze_frame: detectors is the function 0 .. num_faces-1 -> detector,
\* confs the correlation input per face
analyze_frame(detectors, confs) ==
    LET n == Min(Len(confs), num_faces)
        results == [ i \in 1 .. n |-> is_speaking(detectors[i - 1], confs[i]) ]
        scores == [ i \in 1 .. n |-> results[i].confidence ]
        top == best_score(scores, 1)
    IN  [ active_speaker_id |->
              IF n = 0 THEN NoSpeaker
              ELSE IF scores[top] > 20 THEN top - 1 ELSE NoSpeaker,
          detectors |-> [ d \in DOMAIN detectors |->
                            IF d + 1 <= n THEN results[d + 1].detector ELSE detectors[d] ] ]

(***************************************************************************)
(* SmartCropper.identify_active_speaker                                    *)
(***************************************************************************)
\* a hysteresis that counts differing votes without restarting the count on
\* an agreeing vote
speaker_transition_no_restart(active_speaker, current, counter) ==
    IF active_speaker # current
    THEN IF counter + 1 >= min_speaker_switch_frames
         THEN [ current_speaker_id |-> active_speaker, speaker_stability_counter |-> 0 ]
         ELSE [ current_speaker_id |-> current, speaker_stability_counter |-> counter + 1 ]
    ELSE [ current_speaker_id |-> current, speaker_stability_counter |-> counter ]

\* hysteresis on the raw vote (lines 185-195)
speaker_transition(active_speaker, current, counter) ==
    IF active_speaker # current
    THEN IF counter + 1 >= min_speaker_switch_frames
         THEN [ current_speaker_id |-> active_speaker, speaker_stability_counter |-> 0 ]
         ELSE [ current_speaker_id |-> current, speaker_stability_counter |-> counter + 1 ]
    ELSE [ current_speaker_id |-> current, speaker_stability_counter |-> 0 ]

\* a single face that is committed as the speaker at once
single_face_commits(current, counter, detectors) ==
    [ ret |-> 0, arbitrated |-> FALSE, vote |-> NoSpeaker,
      current_speaker_id |-> 0,
      speaker_stability_counter |-> 0, detectors |-> detectors ]

\* "if len(faces) == 1: return 0" (lines 175-177): nothing is written
single_face_result(current, counter, detectors) ==
    [ ret |-> 0, arbitrated |-> FALSE, vote |-> NoSpeaker,
      current_speaker_id |-> current,
      speaker_stability_counter |-> counter, detectors |-> detectors ]

\* timeline_speaker of lines 170-173; None is "none", a timeline that was
\* never built (None) is <<>>
timeline_speaker_at(speaker_timeline_, frame_idx) ==
    IF speaker_timeline_ # <<>> /\ frame_idx < Len(speaker_timeline_)
    THEN speaker_timeline_[frame_idx + 1] ELSE "none"

\* an arbitration that reports no speaker on a frame the timeline does not label
identify_active_speaker_needs_timeline(nfaces, confs, current, counter, detectors, frame_idx, speaker_timeline_) ==
    LET timeline_speaker == timeline_speaker_at(speaker_timeline_, frame_idx)
    IN
    IF nfaces = 0 \/ timeline_speaker = "none"
    THEN [ ret |-> NoSpeaker, arbitrated |-> FALSE, vote |-> NoSpeaker,
           current_speaker_id |-> current,
           speaker_stability_counter |-> counter, detectors |-> detectors ]
    ELSE IF nfaces = 1
    THEN single_face_result(current, counter, detectors)
    ELSE LET lip_sync_result == analyze_frame(detectors, confs)
             t == speaker_transition(lip_sync_result.active_speaker_id, current, counter)
         IN  [ ret |-> IF t.current_speaker_id # NoSpeaker THEN t.current_speaker_id ELSE 0,
               arbitrated |-> TRUE,
               vote |-> lip_sync_result.active_speaker_id,
               current_speaker_id |-> t.current_speaker_id,
               speaker_stability_counter |-> t.speaker_stability_counter,
               detectors |-> lip_sync_result.detectors ]

\* nfaces faces with correlation inputs confs; returns the reported speaker
\* (NoSpeaker for None), the raw vote and the arbitration state.  The
\* timeline speaker of the frame is looked up (lines 170-173) and not used.
identify_active_speaker(nfaces, confs, current, counter, detectors, frame_idx, speaker_timeline_) ==
    LET timeline_speaker == timeline_speaker_at(speaker_timeline_, frame_idx)
    IN
    IF nfaces = 0
    THEN [ ret |-> NoSpeaker, arbitrated |-> FALSE, vote |-> NoSpeaker,
           current_speaker_id |-> current,
           speaker_stability_counter |-> counter, detectors |-> detectors ]
    ELSE IF nfaces = 1
    THEN single_face_result(current, counter, detectors)
    ELSE LET lip_sync_result == analyze_frame(detectors, confs)
             t == speaker_transition(lip_sync_result.active_speaker_id, current, counter)
         IN  [ ret |-> IF t.current_speaker_id # NoSpeaker THEN t.current_speaker_id ELSE 0,
               arbitrated |-> TRUE,
               vote |-> lip_sync_result.active_speaker_id,
               current_speaker_id |-> t.current_speaker_id,
               speaker_stability_counter |-> t.speaker_stability_counter,
               detectors |-> lip_sync_result.detectors ]

(***************************************************************************)
(* FaceTracker.detect_face, reset; SmartCropper.reset, process_frame       *)
(* A cropper state st is the record of the fields of a SmartCropper and of  *)
(* its FaceTracker and MultiPersonLipSync.                                  *)
(***************************************************************************)
\* the landmarker runs in VIDEO mode: detect_for_video raises unless the
\* timestamp is greater than the last one it was given (<<>> when fresh)
timestamp_accepted(landmarker_ts_, timestamp_ms) ==
    IF landmarker_ts_ = <<>> THEN TRUE ELSE timestamp_ms > landmarker_ts_[1]

fresh_detectors ==
    [ d \in 0 .. num_faces - 1 |-> [ mouth_history |-> 0, audio_history |-> 0 ] ]

\* a reset that re-creates the landmarker and keeps the two histories
face_tracker_reset_keeps_history(st) ==
    [ st EXCEPT !.landmarker_ts = <<>> ]

\* FaceTracker.reset: clear both histories, re-create the landmarker
face_tracker_reset(st) ==
    [ st EXCEPT !.position_history = <<>>,
                !.landmark_history = <<>>,
                !.landmarker_ts = <<>> ]

\* a reset that leaves the lip-sync detectors alone
smart_cropper_reset_keeps_detectors(st) ==
    [ face_tracker_reset(st) EXCEPT
        !.crop_history = <<>>,
        !.current_speaker_id = NoSpeaker,
        !.speaker_stability_counter = 0 ]

\* SmartCropper.reset
smart_cropper_reset(st) ==
    [ face_tracker_reset(st) EXCEPT
        !.detectors = fresh_detectors,
        !.crop_history = <<>>,
        !.current_speaker_id = NoSpeaker,
        !.speaker_stability_counter = 0 ]

\* what one frame produced
NoOut ==
    [ kind |-> "none", detected |-> <<>>, smoothed_face |-> <<>>, num_faces |-> 0,
      active_speaker |-> NoSpeaker, crop_box |-> <<>>, smoothed_crop |-> <<>>,
      applied_crop |-> <<>> ]

\* x, y, cw, ch = max(0, x), max(0, y), min(cw, w - x), min(ch, h - y)
apply_clamp(box, w, h) ==
    << Max(0, box[1]), Max(0, box[2]), Min(box[3], w - box[1]), Min(box[4], h - box[2]) >>

\* SmartCropper.process_frame after the landmarker accepted the timestamp;
\* detected is <<>> or <<face_data>> (detect_faces_in_frame yields at most
\* one face)
process_frame(detected, frame, timestamp_ms, st, float_below_, frame_idx, speaker_timeline_) ==
    LET sm == IF detected # <<>>
              THEN get_smoothed_position(detected, st.position_history, st.landmark_history)
              ELSE [ ret |-> <<>>, position_history |-> st.position_history,
                     landmark_history |-> st.landmark_history ]
        faces == sm.ret
        ident == identify_active_speaker(Len(faces), [ i \in 1 .. Len(faces) |-> 0 ],
                     st.current_speaker_id, st.speaker_stability_counter, st.detectors,
                     frame_idx, speaker_timeline_)
        crop_box == calculate_smart_crop(faces, ident.ret, frame[1], frame[2])
        sc == smooth_crop_box(crop_box, st.crop_history, float_below_)
    IN  [ st |-> [ position_history |-> sm.position_history,
                   landmark_history |-> sm.landmark_history,
                   landmarker_ts |-> <<timestamp_ms>>,
                   crop_history |-> sc.crop_history,
                   current_speaker_id |-> ident.current_speaker_id,
                   speaker_stability_counter |-> ident.speaker_stability_counter,
                   detectors |-> ident.detectors ],
          out |-> [ kind |-> "smart", detected |-> detected, smoothed_face |-> sm.ret,
                    num_faces |-> Len(faces), active_speaker |-> ident.ret,
                    crop_box |-> crop_box, smoothed_crop |-> sc.ret,
                    applied_crop |-> apply_clamp(sc.ret, frame[1], frame[2]) ] ]

\* the basic branch of the process_video loop (lines 303-312)
basic_frame(detected, frame, timestamp_ms, st) ==
    LET sm == get_smoothed_position(detected, st.position_history, st.landmark_history)
        crop_box == calculate_crop_box(sm.ret, frame[1], frame[2])
    IN  [ st |-> [ st EXCEPT !.position_history = sm.position_history,
                             !.landmark_history = sm.landmark_history,
                             !.landmarker_ts = <<timestamp_ms>> ],
          out |-> [ kind |-> "basic", detected |-> detected, smoothed_face |-> sm.ret,
                    num_faces |-> Len(detected), active_speaker |-> NoSpeaker,
                    crop_box |-> crop_box, smoothed_crop |-> crop_box,
                    applied_crop |-> crop_box ] ]

(***************************************************************************)
(* State                                                                   *)
(***************************************************************************)
VARIABLES
    \* calculate_crop_box / calculate_smart_crop called on their own
    cb_in,      \* the call: [fn, faces, active, frame]
    cb_out,     \* the returned (x, y, width, height), <<>> before the call
    \* VideoProcessor
    use_smart_crop,     \* fixed at construction
    pc,                 \* "idle", "running" (inside the process_video loop), "failed"
    video,              \* the input of the current run: [frame, fps, debug_mode]
    frame_count,
    \* FaceTracker
    position_history,
    landmark_history,
    landmarker_ts,      \* <<>> for a fresh landmarker, else <<last timestamp>>
    \* SmartCropper
    crop_history,
    current_speaker_id,
    speaker_stability_counter,
    detectors,          \* MultiPersonLipSync.detectors
    \* the platform: history lengths at which the float average of equal
    \* samples falls below the sample
    float_below,
    \* observations
    out,                \* what the last frame produced
    ts_log,             \* timestamps handed to detect_for_video since the last reset
    last_op,            \* the last operation performed
    arb,                \* bookkeeping on the raw votes since the last reset
    \* AudioAnalyzer: the call in progress and its locals, NoAudio when none is
    audio,
    \* the API server: responses sent, background tasks and the files on disk
    api

cropVars == << cb_in, cb_out >>

trackerVars == << position_history, landmark_history, landmarker_ts >>

cropperVars == << crop_history, current_speaker_id, speaker_stability_counter, detectors >>

runVars == << use_smart_crop, pc, video, frame_count, float_below, out, ts_log, last_op, arb,
             audio, api >>

vars == << cb_in, cb_out, use_smart_crop, pc, video, frame_count,
           position_history, landmark_history, landmarker_ts,
           crop_history, current_speaker_id, speaker_stability_counter, detectors,
           float_below, out, ts_log, last_op, arb, audio, api >>

\* the cropper state as one record
cropper ==
    [ position_history |-> position_history, landmark_history |-> landmark_history,
      landmarker_ts |-> landmarker_ts, crop_history |-> crop_history,
      current_speaker_id |-> current_speaker_id,
      speaker_stability_counter |-> speaker_stability_counter,
      detectors |-> detectors ]

\* the cropper state becomes st
SetCropper(st) ==
    /\ position_history' = st.position_history
    /\ landmark_history' = st.landmark_history
    /\ landmarker_ts' = st.landmarker_ts
    /\ crop_history' = st.crop_history
    /\ current_speaker_id' = st.current_speaker_id
    /\ speaker_stability_counter' = st.speaker_stability_counter
    /\ detectors' = st.detectors

\* the variables hold the cropper state after construction (lines 29-53)
SetCropperInit ==
    /\ position_history = <<>> /\ landmark_history = <<>> /\ landmarker_ts = <<>>
    /\ crop_history = <<>>
    /\ current_speaker_id = NoSpeaker
    /\ speaker_stability_counter = 0
    /\ detectors = fresh_detectors

\* differing_run: consecutive arbitrated frames, up to the last one, whose raw
\*   vote differed from the speaker committed at that frame, counted from the
\*   last commit; switched: the last call changed the committed speaker;
\* only: NoSpeaker while no arbitrated frame had the minimum history; a face
\*   id while that face alone has produced a non-zero confidence, and did so
\*   on every frame with the minimum history; Mixed otherwise;
\* ret: the value returned by the last identify_active_speaker;
\* dirty: every piece of temporal state was non-empty when reset() was last
\*   called
NoArb == [ differing_run |-> 0, switched |-> FALSE, only |-> NoSpeaker,
           ret |-> NoSpeaker, dirty |-> FALSE ]

Mixed == num_faces

\* no AudioAnalyzer call in progress
NoAudio == [ fn |-> "none" ]

\* no API server running
NoApi == [ app |-> "none" ]

\* self.speaker_timeline: None (<<>>) until preprocess_video has built it
speaker_timeline ==
    IF "speaker_timeline" \in DOMAIN audio THEN audio.speaker_timeline ELSE <<>>

\* everything but the AudioAnalyzer call
audioOnly == << cropVars, api, trackerVars, cropperVars, use_smart_crop, pc, video,
               frame_count, float_below, out, ts_log, last_op, arb >>

(***************************************************************************)
(* Inputs                                                                  *)
(***************************************************************************)
\* (frame_width, frame_height) of the decoded frames
FrameSizes ==
    { <<1920, 1080>>, <<1280, 720>>, <<640, 360>>, <<1080, 1920>>, <<720, 1280>>,
      <<400, 1000>>, <<960, 854>>, <<959, 853>>, <<2000, 3000>>, <<16, 9>> }

\* landmark coordinates may fall slightly outside the frame
Coord == -1 .. Grid + 1

Extent == 0 .. Grid

\* face_data as returned by detect_face (lines 127-136), numerators over den;
\* eyes is <<>> when the record carries no eyes centre (and no landmarks)
face_data(cx, cy, w, h, eyes) ==
    [ x_center |-> cx, y_center |-> cy, width |-> w, height |-> h,
      eyes_center |-> eyes, landmarks |-> (eyes # <<>>), den |-> Grid ]

FaceObservations ==
    { face_data(cx, cy, w, h, <<cx, cy>>) :
        cx \in Coord, cy \in Coord, w \in Extent, h \in Extent }
    \cup
    { face_data(cx, cy, w, h, <<>>) :
        cx \in Coord, cy \in Coord, w \in Extent, h \in Extent }

\* small faces whose eyes centre is close to an edge of the frame, in
\* hundredths of the frame
EdgeFaces ==
    { [ x_center |-> cx, y_center |-> cy, width |-> 10, height |-> 10,
        eyes_center |-> <<cx, cy>>, landmarks |-> TRUE, den |-> 100 ] :
      cx \in {3, 50, 97}, cy \in {3, 40, 97} }

\* a few faces for the multi-face lists of calculate_smart_crop
SampleFaces ==
    { face_data(0, 1, 1, 1, <<0, 1>>),
      face_data(Grid, Grid - 1, 2, 1, <<Grid, Grid - 1>>),
      face_data(2, 2, Grid, Grid, <<>>) }

FaceLists == { <<>> } \cup { <<f>> : f \in SampleFaces }
                 \cup { <<f, g>> : f \in SampleFaces, g \in SampleFaces }

CropInputs ==
    { [ fn |-> "calculate_crop_box", faces |-> <<f>>, active |-> NoSpeaker, frame |-> fr ] :
        f \in FaceObservations \cup EdgeFaces, fr \in FrameSizes }
    \cup
    { [ fn |-> "calculate_crop_box", faces |-> <<>>, active |-> NoSpeaker, frame |-> fr ] :
        fr \in FrameSizes }
    \cup
    { [ fn |-> "calculate_smart_crop", faces |-> fs, active |-> a, frame |-> fr ] :
        fs \in FaceLists, a \in {NoSpeaker, 0, 1, 2}, fr \in FrameSizes }

(***************************************************************************)
(* Crop functions called on their own                                      *)
(***************************************************************************)
\* everything but the crop call, at rest
Rest ==
    /\ use_smart_crop = FALSE
    /\ pc = "idle"
    /\ video = <<>>
    /\ frame_count = 0
    /\ position_history = <<>> /\ landmark_history = <<>> /\ landmarker_ts = <<>>
    /\ crop_history = <<>>
    /\ current_speaker_id = NoSpeaker
    /\ speaker_stability_counter = 0
    /\ detectors = fresh_detectors
    /\ float_below = {}
    /\ out = NoOut
    /\ ts_log = <<>>
    /\ last_op = "init"
    /\ arb = NoArb

InitCrop ==
    /\ cb_in \in CropInputs
    /\ cb_out = <<>>
    /\ Rest
    /\ audio = NoAudio
    /\ api = NoApi

CallCropBox ==
    /\ cb_in.fn = "calculate_crop_box"
    /\ cb_out = <<>>
    /\ cb_out' = calculate_crop_box(cb_in.faces, cb_in.frame[1], cb_in.frame[2])
    /\ UNCHANGED << cb_in, trackerVars, cropperVars, runVars >>

CallSmartCrop ==
    /\ cb_in.fn = "calculate_smart_crop"
    /\ cb_out = <<>>
    /\ cb_out' = calculate_smart_crop(cb_in.faces, cb_in.active, cb_in.frame[1], cb_in.frame[2])
    /\ UNCHANGED << cb_in, trackerVars, cropperVars, runVars >>

NextCrop == CallCropBox \/ CallSmartCrop

SpecCrop == InitCrop /\ [][NextCrop]_vars


(***************************************************************************)
(* VideoProcessor.process_video                                            *)
(***************************************************************************)
\* source videos: frame size, frame rate cap.get(CAP_PROP_FPS) as a fraction,
\* and the debug_mode argument
Videos ==
    { [ frame |-> <<1920, 1080>>, fps |-> <<30, 1>>, debug_mode |-> FALSE ],
      [ frame |-> <<1920, 1080>>, fps |-> <<30, 1>>, debug_mode |-> TRUE ],
      [ frame |-> <<1280, 720>>, fps |-> <<25, 1>>, debug_mode |-> FALSE ],
      [ frame |-> <<720, 1280>>, fps |-> <<30000, 1001>>, debug_mode |-> FALSE ],
      [ frame |-> <<400, 1000>>, fps |-> <<60, 1>>, debug_mode |-> TRUE ] }

\* what the landmarker finds in a frame: nothing, or one of two faces
PipelineFaces ==
    { face_data(1, 1, 1, 1, <<1, 1>>),
      face_data(Grid - 1, 2, 1, 2, <<Grid - 1, 2>>) }

Detections == { <<>> } \cup { <<f>> : f \in PipelineFaces }

Init ==
    /\ cb_in = <<>>
    /\ cb_out = <<>>
    /\ use_smart_crop \in BOOLEAN
    /\ float_below \in (IF use_smart_crop THEN SUBSET (2 .. MaxFrames) ELSE { {} })
    /\ pc = "idle"
    /\ video = <<>>
    /\ frame_count = 0
    /\ position_history = <<>> /\ landmark_history = <<>> /\ landmarker_ts = <<>>
    /\ crop_history = <<>>
    /\ current_speaker_id = NoSpeaker
    /\ speaker_stability_counter = 0
    /\ detectors = fresh_detectors
    /\ out = NoOut
    /\ ts_log = <<>>
    /\ last_op = "init"
    /\ arb = NoArb
    /\ audio = NoAudio
    /\ api = NoApi

\* the speaker timeline preprocess_video leaves behind: no frame labelled, or
\* every frame labelled with one speaker
PipelineTimelines == { [ f \in 1 .. MaxFrames |-> l ] : l \in {"none", "SPEAKER_00"} }

\* process_video up to the frame loop (lines 194-274): in smart mode the
\* video is preprocessed (line 199); the trackers are reset
StartVideo ==
    /\ pc \in {"idle", "failed"}
    /\ \E v \in Videos : video' = v
    /\ SetCropper(IF use_smart_crop THEN smart_cropper_reset(cropper)
                  ELSE face_tracker_reset(cropper))
    /\ frame_count' = 0
    /\ pc' = "running"
    /\ out' = NoOut
    /\ ts_log' = <<>>
    /\ last_op' = "start"
    /\ audio' \in (IF use_smart_crop
                   THEN { [ fn |-> "preprocessed", speaker_timeline |-> tl ] :
                          tl \in PipelineTimelines }
                   ELSE { audio })
    /\ UNCHANGED << cropVars, api, use_smart_crop, float_below, arb >>

\* timestamp_ms = int((frame_count / fps) * 1000)
source_timestamp(count, fps) == Trunc(count * 1000 * fps[2], fps[1])

\* timestamp_ms = int((frame_idx / config.OUTPUT_FPS) * 1000)
output_timestamp(frame_idx) == Trunc(frame_idx * 1000, OUTPUT_FPS)

\* one iteration of the loop in smart-crop mode (lines 278-301): process_frame
\* and, in debug mode, a second detection for the overlay; a timestamp the
\* landmarker rejects raises out of process_video
SmartFrame ==
    /\ pc = "running"
    /\ use_smart_crop
    /\ frame_count < MaxFrames
    /\ frame_count' = frame_count + 1
    /\ last_op' = "frame"
    /\ \E detected \in Detections :
         LET ts1 == output_timestamp(frame_count' - 1)
             ts2 == source_timestamp(frame_count', video.fps)
             r == process_frame(detected, video.frame, ts1, cropper, float_below,
                                frame_count, speaker_timeline)
         IN  IF ~ timestamp_accepted(landmarker_ts, ts1)
             THEN /\ pc' = "failed"
                  /\ ts_log' = Append(ts_log, ts1)
                  /\ UNCHANGED << trackerVars, cropperVars, out >>
             ELSE IF ~ video.debug_mode
             THEN /\ pc' = pc
                  /\ ts_log' = Append(ts_log, ts1)
                  /\ SetCropper(r.st)
                  /\ out' = r.out
             ELSE /\ ts_log' = ts_log \o << ts1, ts2 >>
                  /\ out' = r.out
                  /\ IF timestamp_accepted(r.st.landmarker_ts, ts2)
                     THEN /\ pc' = pc
                          /\ SetCropper([ r.st EXCEPT !.landmarker_ts = <<ts2>> ])
                     ELSE /\ pc' = "failed"
                          /\ SetCropper(r.st)
    /\ UNCHANGED << cropVars, audio, api, use_smart_crop, video, float_below, arb >>

\* one iteration of the loop in basic mode (lines 278-312)
BasicFrame ==
    /\ pc = "running"
    /\ ~ use_smart_crop
    /\ frame_count < MaxFrames
    /\ frame_count' = frame_count + 1
    /\ last_op' = "frame"
    /\ \E detected \in Detections :
         LET ts == source_timestamp(frame_count', video.fps)
             r == basic_frame(detected, video.frame, ts, cropper)
         IN  /\ ts_log' = Append(ts_log, ts)
             /\ IF timestamp_accepted(landmarker_ts, ts)
                THEN /\ pc' = pc
                     /\ SetCropper(r.st)
                     /\ out' = r.out
                ELSE /\ pc' = "failed"
                     /\ UNCHANGED << trackerVars, cropperVars, out >>
    /\ UNCHANGED << cropVars, audio, api, use_smart_crop, video, float_below, arb >>

\* cap.read() has no more frames (or the test duration is reached)
EndVideo ==
    /\ pc = "running"
    /\ pc' = "idle"
    /\ last_op' = "end"
    /\ UNCHANGED << cropVars, audio, api, trackerVars, cropperVars, use_smart_crop, video,
                    frame_count, float_below, out, ts_log, arb >>

Next == StartVideo \/ SmartFrame \/ BasicFrame \/ EndVideo

Spec == Init /\ [][Next]_vars

(***************************************************************************)
(* A SmartCropper driven through its methods: reset, process_frame and     *)
(* identify_active_speaker with any number of faces                        *)
(***************************************************************************)
\* correlation inputs in hundredths: 0 when is_speaking's tests fail, else a
\* correlation above its 0.3 threshold
Confidences == {0, 50, 90}

\* the frames given to process_frame
ArbVideo == [ frame |-> <<1920, 1080>>, fps |-> <<30, 1>>, debug_mode |-> FALSE ]

ArbFace == face_data(1, 1, 1, 1, <<1, 1>>)

InitArb ==
    /\ cb_in = <<>>
    /\ cb_out = <<>>
    /\ use_smart_crop = TRUE
    /\ float_below = {}
    /\ pc = "idle"
    /\ video = ArbVideo
    /\ frame_count = 0
    /\ SetCropperInit
    /\ out = NoOut
    /\ ts_log = <<>>
    /\ last_op = "init"
    /\ arb = NoArb
    /\ audio = NoAudio
    /\ api = NoApi

\* smart_cropper.reset()
ArbReset ==
    /\ SetCropper(smart_cropper_reset(cropper))
    /\ frame_count' = 0
    /\ out' = NoOut
    /\ ts_log' = <<>>
    /\ last_op' = "reset"
    /\ arb' = [ NoArb EXCEPT !.dirty =
                  /\ position_history # <<>>
                  /\ landmark_history # <<>>
                  /\ crop_history # <<>>
                  /\ \A d \in 0 .. MaxFaces - 1 :
                        detectors[d].mouth_history > 0 /\ detectors[d].audio_history > 0
                  /\ current_speaker_id # NoSpeaker
                  /\ speaker_stability_counter > 0 ]
    /\ UNCHANGED << cropVars, audio, api, use_smart_crop, pc, video, float_below >>

\* smart_cropper.process_frame(frame, frame_count)
ArbFrame ==
    /\ frame_count < MaxFrames
    /\ timestamp_accepted(landmarker_ts, output_timestamp(frame_count))
    /\ \E r \in { process_frame(<<ArbFace>>, video.frame, output_timestamp(frame_count),
                                cropper, float_below, frame_count, speaker_timeline) } :
           /\ SetCropper(r.st)
           /\ out' = r.out
    /\ ts_log' = Append(ts_log, output_timestamp(frame_count))
    /\ frame_count' = frame_count + 1
    /\ last_op' = "frame"
    /\ UNCHANGED << cropVars, audio, api, use_smart_crop, pc, video, float_below, arb >>

\* the bookkeeping `only` after a frame with correlations confs; before the
\* minimum history every confidence is 0 and the frame does not count
only_speaker(only, confs, ready) ==
    LET voiced == { i \in 1 .. Len(confs) : confs[i] > 0 }
    IN  IF ~ ready THEN only
        ELSE IF Cardinality(voiced) # 1 THEN Mixed
        ELSE LET a == (CHOOSE i \in voiced : TRUE) - 1
             IN  IF only = NoSpeaker \/ only = a THEN a ELSE Mixed

\* smart_cropper.identify_active_speaker(faces, frame_idx) with nfaces faces
\* whose correlations are confs
ArbIdentify ==
    /\ \E nfaces \in 0 .. MaxFaces :
       \E confs \in [ 1 .. nfaces -> Confidences ] :
       \E r \in { identify_active_speaker(nfaces, confs, current_speaker_id,
                                          speaker_stability_counter, detectors,
                                          frame_count, speaker_timeline) } :
         /\ current_speaker_id' = r.current_speaker_id
         /\ speaker_stability_counter' = r.speaker_stability_counter
         /\ detectors' = r.detectors
         /\ last_op' = IF r.arbitrated THEN "identify"
                       ELSE IF nfaces = 1 THEN "identify_single" ELSE "identify_none"
         /\ arb' =
              IF ~ r.arbitrated THEN [ arb EXCEPT !.ret = r.ret ]
              ELSE [ differing_run |->
                         IF r.vote # current_speaker_id
                         THEN Min((IF arb.switched THEN 0 ELSE arb.differing_run) + 1,
                                  min_speaker_switch_frames + 1)
                         ELSE 0,
                     switched |-> r.current_speaker_id # current_speaker_id,
                     only |-> only_speaker(arb.only, confs,
                                           r.detectors[0].mouth_history >= window_size \div 2),
                     ret |-> r.ret,
                     dirty |-> arb.dirty ]
    /\ UNCHANGED << cropVars, audio, api, trackerVars, crop_history, use_smart_crop, pc, video,
                    frame_count, float_below, out, ts_log >>

NextArb == ArbReset \/ ArbFrame \/ ArbIdentify

SpecArb == InitArb /\ [][NextArb]_vars

(***************************************************************************)
(* A static scene: the landmarker finds the same face on every frame and   *)
(* SmartCropper.process_frame runs on each of them.  The scene's face is   *)
(* carried in the field `face` of video.                                   *)
(***************************************************************************)
\* frames of a static scene
StaticFrames == 22

\* the normalised coordinates of a static face are multiples of
\* 1 / (2 * StaticGrid)
StaticGrid == 10

StaticFrameSizes == { <<1920, 1080>>, <<1280, 720>>, <<1080, 1920>> }

\* faces as detect_face reports them: box centre at (0.5, 0.4) or at
\* (0.15, 0.4), 0.1 or 0.3 of the frame wide and high, the eyes centre on the
\* box's vertical axis, at the box centre or above it
StaticFaces ==
    { [ x_center |-> cx, y_center |-> (4 * StaticGrid) \div 5, width |-> w, height |-> h,
        eyes_center |-> <<cx, (4 * StaticGrid) \div 5 - up>>,
        landmarks |-> TRUE, den |-> 2 * StaticGrid ] :
      cx \in {StaticGrid, (3 * StaticGrid) \div 10},
      w \in {StaticGrid \div 5, (3 * StaticGrid) \div 5},
      h \in {StaticGrid \div 5, (3 * StaticGrid) \div 5},
      up \in {0, 1} }

\* the platform's float rounding: exact everywhere, below at one history
\* length, or below at every history length
FloatBelowChoices ==
    { {} } \cup { {n} : n \in 2 .. smoothing_window } \cup { 2 .. smoothing_window }

InitStatic ==
    /\ cb_in = <<>>
    /\ cb_out = <<>>
    /\ use_smart_crop = TRUE
    /\ float_below \in FloatBelowChoices
    /\ pc = "idle"
    /\ \E size \in StaticFrameSizes : \E f \in StaticFaces :
          video = [ frame |-> size, fps |-> <<OUTPUT_FPS, 1>>, debug_mode |-> FALSE,
                    face |-> f ]
    /\ frame_count = 0
    /\ SetCropperInit
    /\ out = NoOut
    /\ ts_log = <<>>
    /\ last_op = "init"
    /\ arb = NoArb
    /\ audio = NoAudio
    /\ api = NoApi

\* smart_cropper.process_frame(frame, frame_count) on the next frame of the scene
StaticFrame ==
    /\ frame_count < StaticFrames
    /\ timestamp_accepted(landmarker_ts, output_timestamp(frame_count))
    /\ \E r \in { process_frame(<<video.face>>, video.frame, output_timestamp(frame_count),
                                cropper, float_below, frame_count, speaker_timeline) } :
           /\ SetCropper(r.st)
           /\ out' = r.out
    /\ ts_log' = Append(ts_log, output_timestamp(frame_count))
    /\ frame_count' = frame_count + 1
    /\ last_op' = "frame"
    /\ UNCHANGED << cropVars, audio, api, use_smart_crop, pc, video, float_below, arb >>

NextStatic == StaticFrame

SpecStatic == InitStatic /\ [][NextStatic]_vars

(***************************************************************************)
(* AudioAnalyzer.detect_voice_activity                                     *)
(* Times are kept as sample counts: a time t stands for t / sample_rate.   *)
(***************************************************************************)
\* loop iterations of one voice-activity run
MaxVadFrames == 5

\* a step that closes a segment on every non-speech frame
vad_step_close_always(st, is_speech, timestamp) ==
    IF is_speech /\ ~ st.is_speaking
    THEN [ st EXCEPT !.segment_start = timestamp, !.is_speaking = TRUE ]
    ELSE IF ~ is_speech
    THEN [ st EXCEPT !.voice_segments = Append(@, << st.segment_start, timestamp >>),
                     !.is_speaking = FALSE ]
    ELSE st

\* the body of the loop over the speech flags, the same in _webrtc_vad
\* (lines 145-152) and in _energy_based_vad (lines 187-192)
vad_step(st, is_speech, timestamp) ==
    IF is_speech /\ ~ st.is_speaking
    THEN [ st EXCEPT !.segment_start = timestamp, !.is_speaking = TRUE ]
    ELSE IF ~ is_speech /\ st.is_speaking
    THEN [ st EXCEPT !.voice_segments = Append(@, << st.segment_start, timestamp >>),
                     !.is_speaking = FALSE ]
    ELSE st

\* if is_speaking: close the last segment at len(audio) / sample_rate
vad_close(st) ==
    IF st.is_speaking
    THEN [ st EXCEPT !.voice_segments = Append(@, << st.segment_start, st.len >>) ]
    ELSE st

\* frame_length = int(sample_rate * frame_duration_ms / 1000) at 16 kHz
webrtc_frame_length(frame_duration_ms) == (16000 * frame_duration_ms) \div 1000

\* hop_length = int(sample_rate * 0.01)
energy_hop_length(sample_rate) == sample_rate \div 100

\* audio lengths around whole multiples of the step
AudioLengths(step) ==
    { k * step + r : k \in 0 .. MaxVadFrames, r \in {0, 1, step - 1} }

\* the timestamps the loop visits: range(0, len - frame_length, frame_length)
\* for WebRTC, i * hop_length for the 1 + len // hop_length frames of
\* librosa.feature.rms for the energy fallback
vad_has_next(st) ==
    IF st.fn = "_webrtc_vad" THEN st.i < st.len - st.step
    ELSE st.i \div st.step < 1 + st.len \div st.step

InitVad ==
    /\ api = NoApi
    /\ cb_in = <<>>
    /\ cb_out = <<>>
    /\ Rest
    /\ \E fn \in {"_webrtc_vad", "_energy_based_vad"} :
       \E step \in (IF fn = "_webrtc_vad"
                    THEN { webrtc_frame_length(ms) : ms \in {10, 20, 30} }
                    ELSE { energy_hop_length(sr) : sr \in {16000, 22050, 44100} }) :
       \E len \in AudioLengths(step) :
          audio = [ fn |-> fn, step |-> step, len |-> len, i |-> 0, pc |-> "loop",
                    is_speaking |-> FALSE, segment_start |-> 0, voice_segments |-> <<>> ]

\* one iteration of the loop, the flag being what the detector says of the frame
VadFrame ==
    /\ audio.fn \in {"_webrtc_vad", "_energy_based_vad"}
    /\ audio.pc = "loop"
    /\ vad_has_next(audio)
    /\ \E is_speech \in BOOLEAN :
          audio' = [ vad_step(audio, is_speech, audio.i) EXCEPT !.i = audio.i + audio.step ]
    /\ UNCHANGED audioOnly

\* the loop is over: close the last segment and return voice_segments
VadReturn ==
    /\ audio.fn \in {"_webrtc_vad", "_energy_based_vad"}
    /\ audio.pc = "loop"
    /\ ~ vad_has_next(audio)
    /\ audio' = [ vad_close(audio) EXCEPT !.pc = "returned" ]
    /\ UNCHANGED audioOnly

NextVad == VadFrame \/ VadReturn

SpecVad == InitVad /\ [][NextVad]_vars

(***************************************************************************)
(* SmartCropper.preprocess_video and the AudioAnalyzer functions it calls  *)
(* Times of turns and segments are in milliseconds, frame rates are pairs  *)
(* <<numerator, denominator>>, None is the label "none".                    *)
(***************************************************************************)
\* frames of the clip handed to preprocess_video
MaxClipFrames == 6

\* sr of extract_audio_from_video: ffmpeg -ar 16000, librosa.load(sr=16000)
SAMPLE_RATE == 16000

\* len(get_audio_energy_per_frame(audio, sample_rate, fps)): one entry per
\* range(num_frames)
get_audio_energy_per_frame(len_audio, sample_rate, fps) ==
    LET samples_per_frame == sample_rate \div fps
    IN  len_audio \div samples_per_frame

\* start_frame, end_frame of a turn: int(t * fps), then the clamps
turn_frames(turn, fps, total_frames) ==
    LET start_frame == Trunc(turn[1] * fps, 1000)
        end_frame == Trunc(turn[2] * fps, 1000)
    IN  << Max(0, Min(start_frame, total_frames - 1)),
           Max(0, Min(end_frame, total_frames)) >>

\* get_speaker_per_frame: entry f + 1 is the label of frame f; a later turn
\* overwrites an earlier one
RECURSIVE get_speaker_per_frame(_, _, _)
get_speaker_per_frame(speech_segments, fps, total_frames) ==
    IF speech_segments = <<>> THEN [ f \in 1 .. total_frames |-> "none" ]
    ELSE LET k == Len(speech_segments)
             before == get_speaker_per_frame(SubSeq(speech_segments, 1, k - 1), fps, total_frames)
             fr == turn_frames(speech_segments[k], fps, total_frames)
         IN  [ f \in 1 .. total_frames |->
                 IF fr[1] <= f - 1 /\ f - 1 < fr[2] THEN speech_segments[k][3] ELSE before[f] ]

\* the set of labels of a timeline
speakers_of(timeline) == { timeline[k][3] : k \in 1 .. Len(timeline) }

\* diarize_speakers without the except clause
diarize_speakers_unguarded(pipeline, vad_segments, tracks) ==
    IF pipeline = "unavailable"
    THEN [ raised |-> FALSE,
           timeline |-> [ k \in 1 .. Len(vad_segments) |->
                            << vad_segments[k][1], vad_segments[k][2], "SPEAKER_00" >> ],
           num_speakers |-> 1 ]
    ELSE IF pipeline = "ok"
    THEN [ raised |-> FALSE, timeline |-> tracks,
           num_speakers |-> Cardinality(speakers_of(tracks)) ]
    ELSE [ raised |-> TRUE, timeline |-> <<>>, num_speakers |-> 0 ]

\* diarize_speakers: pipeline is "unavailable" (self.pipeline is None), "ok"
\* (inference yields tracks) or "inference_error" (the pipeline call or
\* itertracks raises); raised tells whether the call raised
diarize_speakers(pipeline, vad_segments, tracks) ==
    IF pipeline = "unavailable"
    THEN [ raised |-> FALSE,
           timeline |-> [ k \in 1 .. Len(vad_segments) |->
                            << vad_segments[k][1], vad_segments[k][2], "SPEAKER_00" >> ],
           num_speakers |-> 1 ]
    ELSE IF pipeline = "ok"
    THEN [ raised |-> FALSE, timeline |-> tracks,
           num_speakers |-> Cardinality(speakers_of(tracks)) ]
    ELSE [ raised |-> FALSE, timeline |-> <<>>, num_speakers |-> 0 ]

\* source frame rates
ClipRates == { <<25, 1>>, <<30, 1>>, <<30000, 1001>> }

\* test_duration in milliseconds, 0 for None
TestDurations == { 0, 100 }

\* the clip: its frame count and rate, an audio track as long as the video
\* or 600 samples longer, the optional limit, the state of the pipeline
Clips ==
    { [ total_frames |-> n, video_fps |-> r,
        len_audio |-> (n * SAMPLE_RATE * r[2]) \div r[1] + extra,
        test_duration |-> td, pipeline |-> p ] :
      n \in 0 .. MaxClipFrames, r \in ClipRates, extra \in {0, 600},
      td \in TestDurations, p \in {"unavailable", "ok", "inference_error"} }

\* what detect_voice_activity may return for audio of this length: nothing,
\* one segment over the whole audio, or two segments
VadResults(len_audio) ==
    LET dur == (len_audio * 1000) \div SAMPLE_RATE
    IN  { <<>>, << <<0, dur>> >>, << <<0, dur \div 3>>, <<(2 * dur) \div 3, dur>> >> }

TurnTimes == { -50, 0, 120, 400 }

Turns == { << a, b, l >> : a \in TurnTimes, b \in TurnTimes, l \in {"SPEAKER_00", "SPEAKER_01"} }

\* tracks of the diarization pipeline: up to two turns with start < end
Tracks ==
    LET ok == { t \in Turns : t[1] < t[2] }
    IN  { <<>> } \cup { <<t>> : t \in ok } \cup { <<t, u>> : t \in ok, u \in ok }

InitPreprocess ==
    /\ api = NoApi
    /\ cb_in = <<>>
    /\ cb_out = <<>>
    /\ Rest
    /\ \E clip \in Clips :
          audio = [ fn |-> "preprocess_video", pc |-> "extract", clip |-> clip,
                    len_audio |-> clip.len_audio, vad_segments |-> <<>>,
                    diarization |-> [ raised |-> FALSE, timeline |-> <<>>, num_speakers |-> 0 ],
                    audio_energy_per_frame |-> 0, total_frames |-> 0,
                    speaker_timeline |-> <<>> ]

\* lines 68-77: extract the audio, cut it to test_duration
PreExtract ==
    /\ audio.fn = "preprocess_video" /\ audio.pc = "extract"
    /\ LET max_samples == (audio.clip.test_duration * SAMPLE_RATE) \div 1000
       IN  audio' = [ audio EXCEPT
                        !.pc = "vad",
                        !.len_audio = IF audio.clip.test_duration # 0 /\ @ > max_samples
                                      THEN max_samples ELSE @ ]
    /\ UNCHANGED audioOnly

\* lines 79-81: detect_voice_activity
PreVad ==
    /\ audio.fn = "preprocess_video" /\ audio.pc = "vad"
    /\ \E segs \in VadResults(audio.len_audio) :
          audio' = [ audio EXCEPT !.pc = "diarize", !.vad_segments = segs ]
    /\ UNCHANGED audioOnly

\* lines 83-92: diarize_speakers; an exception leaves preprocess_video
PreDiarize ==
    /\ audio.fn = "preprocess_video" /\ audio.pc = "diarize"
    /\ \E tracks \in (IF audio.clip.pipeline = "ok" THEN Tracks ELSE { <<>> }) :
       \E d \in { diarize_speakers(audio.clip.pipeline, audio.vad_segments, tracks) } :
          audio' = [ audio EXCEPT !.pc = IF d.raised THEN "raised" ELSE "energy",
                                  !.diarization = d ]
    /\ UNCHANGED audioOnly

\* lines 94-99: the energy array at config.OUTPUT_FPS
PreEnergy ==
    /\ audio.fn = "preprocess_video" /\ audio.pc = "energy"
    /\ audio' = [ audio EXCEPT
                    !.pc = "timeline",
                    !.audio_energy_per_frame =
                        get_audio_energy_per_frame(audio.len_audio, SAMPLE_RATE, OUTPUT_FPS) ]
    /\ UNCHANGED audioOnly

\* lines 101-114: the frame count of the video, cut to test_duration, and
\* the speaker timeline at config.OUTPUT_FPS
PreTimeline ==
    /\ audio.fn = "preprocess_video" /\ audio.pc = "timeline"
    /\ LET clip == audio.clip
           max_frames == (clip.test_duration * clip.video_fps[1]) \div (1000 * clip.video_fps[2])
           total_frames == IF clip.test_duration # 0
                           THEN Min(clip.total_frames, max_frames) ELSE clip.total_frames
       IN  audio' = [ audio EXCEPT
                        !.pc = "done",
                        !.total_frames = total_frames,
                        !.speaker_timeline =
                            get_speaker_per_frame(audio.diarization.timeline, OUTPUT_FPS,
                                                  total_frames) ]
    /\ UNCHANGED audioOnly

NextPreprocess == PreExtract \/ PreVad \/ PreDiarize \/ PreEnergy \/ PreTimeline

SpecPreprocess == InitPreprocess /\ [][NextPreprocess]_vars

(***************************************************************************)
(* Two SmartCroppers fed the same frames, one with a speaker timeline that *)
(* labels no frame, its twin with a timeline that labels every frame.  The *)
(* variables hold the first one, audio.twin and audio.twin_out the state    *)
(* and the output of the second.                                            *)
(***************************************************************************)
\* timelines without a label: never built, or all None, as long as the clip
\* or shorter
UnlabelledTimelines == { <<>>, << "none" >>, [ f \in 1 .. MaxFrames |-> "none" ] }

LabelledTimeline == [ f \in 1 .. MaxFrames |-> "SPEAKER_00" ]

TwinFrameSizes == { <<1920, 1080>>, <<720, 1280>> }

InitTwin ==
    /\ api = NoApi
    /\ cb_in = <<>>
    /\ cb_out = <<>>
    /\ use_smart_crop = TRUE
    /\ float_below \in { {}, {2} }
    /\ pc = "idle"
    /\ \E size \in TwinFrameSizes :
          video = [ frame |-> size, fps |-> <<OUTPUT_FPS, 1>>, debug_mode |-> FALSE ]
    /\ frame_count = 0
    /\ SetCropperInit
    /\ out = NoOut
    /\ ts_log = <<>>
    /\ last_op = "init"
    /\ arb = NoArb
    /\ \E tl \in UnlabelledTimelines :
          audio = [ fn |-> "twin", speaker_timeline |-> tl,
                    labelled_timeline |-> LabelledTimeline,
                    twin |-> cropper, twin_out |-> NoOut ]

\* process_frame(frame, frame_count) on both croppers
TwinFrame ==
    /\ audio.fn = "twin"
    /\ frame_count < MaxFrames
    /\ timestamp_accepted(landmarker_ts, output_timestamp(frame_count))
    /\ \E detected \in Detections :
       \E r \in { process_frame(detected, video.frame, output_timestamp(frame_count),
                                cropper, float_below, frame_count, audio.speaker_timeline) } :
       \E t \in { process_frame(detected, video.frame, output_timestamp(frame_count),
                                audio.twin, float_below, frame_count,
                                audio.labelled_timeline) } :
           /\ SetCropper(r.st)
           /\ out' = r.out
           /\ audio' = [ audio EXCEPT !.twin = t.st, !.twin_out = t.out ]
    /\ ts_log' = Append(ts_log, output_timestamp(frame_count))
    /\ frame_count' = frame_count + 1
    /\ last_op' = "frame"
    /\ UNCHANGED << cropVars, api, use_smart_crop, pc, video, float_below, arb >>

NextTwin == TwinFrame

SpecTwin == InitTwin /\ [][NextTwin]_vars

(***************************************************************************)
(* LipSyncDetector on sample values: mouth openings are in tenths, audio   *)
(* energies in units of the quietest non-silent frame; a correlation c is  *)
(* kept as the pair <<num, den>> with c * c = num / den, <<0, 1>> being 0   *)
(* and den = 0 the nan of a division by a zero deviation.                   *)
(***************************************************************************)
\* is_speaking calls on one detector
MaxLipFrames == 6

MouthLevels == {0, 1, 3}

AudioLevels == {0, 1}

\* len(s) * (s - np.mean(s)): the deviations from the mean, scaled by len(s)
deviations(samples) ==
    [ i \in 1 .. Len(samples) |-> Len(samples) * samples[i] - SumSeq(samples) ]

\* correlate_with_audio without the test of the standard deviations
correlate_with_audio_unguarded(mouth_features, audio_energy) ==
    IF Len(mouth_features) < 2 \/ Len(audio_energy) < 2 THEN << 0, 1 >>
    ELSE LET min_len == Min(Len(mouth_features), Len(audio_energy))
             mouth_norm == deviations(SubSeq(mouth_features, 1, min_len))
             audio_norm == deviations(SubSeq(audio_energy, 1, min_len))
             cov == weighted_sum(mouth_norm, audio_norm)
         IN  << cov * cov,
                weighted_sum(mouth_norm, mouth_norm) * weighted_sum(audio_norm, audio_norm) >>

\* correlate_with_audio: |sum(mouth_norm * audio_norm)| / min_len after both
\* series are centred and divided by their standard deviation, 0 when a
\* standard deviation is below 1e-10 (on sample levels: when it is 0)
correlate_with_audio(mouth_features, audio_energy) ==
    IF Len(mouth_features) < 2 \/ Len(audio_energy) < 2 THEN << 0, 1 >>
    ELSE LET min_len == Min(Len(mouth_features), Len(audio_energy))
             mouth_norm == deviations(SubSeq(mouth_features, 1, min_len))
             audio_norm == deviations(SubSeq(audio_energy, 1, min_len))
             cov == weighted_sum(mouth_norm, audio_norm)
         IN  IF weighted_sum(mouth_norm, mouth_norm) = 0 \/ weighted_sum(audio_norm, audio_norm) = 0
             THEN << 0, 1 >>
             ELSE << cov * cov,
                     weighted_sum(mouth_norm, mouth_norm) * weighted_sum(audio_norm, audio_norm) >>

\* the tests of lines 237-244 on a correlation: mouth_opening > 0.15,
\* audio_energy > mean(audio_array) * 0.5, correlation > 0.3 (false for nan)
speaking_decision(correlation, mouth_opening, audio_energy, audio_array) ==
    LET mouth_active == 10 * mouth_opening > 15
        audio_active == 2 * Len(audio_array) * audio_energy > SumSeq(audio_array)
        correlated == correlation[2] > 0 /\ 100 * correlation[1] > 9 * correlation[2]
        speaking == mouth_active /\ audio_active /\ correlated
    IN  [ is_speaking |-> speaking,
          confidence |-> IF speaking THEN correlation ELSE << 0, 1 >>,
          correlation |-> correlation ]

\* is_speaking that correlates whatever the length of the history
is_speaking_samples_no_minimum(detector, mouth_opening, audio_energy) ==
    LET mh == deque_append(detector.mouth_history, mouth_opening, window_size)
        ah == deque_append(detector.audio_history, audio_energy, window_size)
        d == [ mouth_history |-> mh, audio_history |-> ah ]
    IN  [ result |-> speaking_decision(correlate_with_audio(mh, ah),
                                       mouth_opening, audio_energy, ah),
          detector |-> d ]

\* LipSyncDetector.is_speaking with the mouth opening already measured
is_speaking_samples(detector, mouth_opening, audio_energy) ==
    LET mh == deque_append(detector.mouth_history, mouth_opening, window_size)
        ah == deque_append(detector.audio_history, audio_energy, window_size)
        d == [ mouth_history |-> mh, audio_history |-> ah ]
    IN  IF Len(mh) < window_size \div 2
        THEN [ result |-> [ is_speaking |-> FALSE, confidence |-> << 0, 1 >>,
                            correlation |-> << 0, 1 >> ],
               detector |-> d ]
        ELSE [ result |-> speaking_decision(correlate_with_audio(mh, ah),
                                            mouth_opening, audio_energy, ah),
               detector |-> d ]

\* LipSyncDetector() for every slot of MultiPersonLipSync
fresh_sample_detectors ==
    [ d \in 0 .. num_faces - 1 |-> [ mouth_history |-> <<>>, audio_history |-> <<>> ] ]

lipOnly == << cropVars, audio, api, trackerVars, crop_history, current_speaker_id,
              speaker_stability_counter, use_smart_crop, pc, video, float_below,
              ts_log, arb >>

InitLip ==
    /\ cb_in = <<>>
    /\ cb_out = <<>>
    /\ use_smart_crop = TRUE
    /\ float_below = {}
    /\ pc = "idle"
    /\ video = <<>>
    /\ frame_count = 0
    /\ position_history = <<>> /\ landmark_history = <<>> /\ landmarker_ts = <<>>
    /\ crop_history = <<>>
    /\ current_speaker_id = NoSpeaker
    /\ speaker_stability_counter = 0
    /\ detectors = fresh_sample_detectors
    /\ out = NoOut
    /\ ts_log = <<>>
    /\ last_op = "init"
    /\ arb = NoArb
    /\ audio = NoAudio
    /\ api = NoApi

\* detectors[0].is_speaking(landmarks, audio_energy); frame_count counts the calls
LipFrame ==
    /\ frame_count < MaxLipFrames
    /\ \E mouth_opening \in MouthLevels : \E audio_energy \in AudioLevels :
       \E r \in { is_speaking_samples(detectors[0], mouth_opening, audio_energy) } :
          /\ detectors' = [ detectors EXCEPT ![0] = r.detector ]
          /\ out' = r.result
    /\ frame_count' = frame_count + 1
    /\ last_op' = "is_speaking"
    /\ UNCHANGED lipOnly

\* detectors[0].reset()
LipReset ==
    /\ frame_count > 0
    /\ detectors' = [ detectors EXCEPT ![0] = [ mouth_history |-> <<>>, audio_history |-> <<>> ] ]
    /\ frame_count' = 0
    /\ out' = NoOut
    /\ last_op' = "reset"
    /\ UNCHANGED lipOnly

NextLip == LipFrame \/ LipReset

SpecLip == InitLip /\ [][NextLip]_vars

(***************************************************************************)
(* FaceTracker.get_smoothed_position on a stream of observations           *)
(***************************************************************************)
\* observations handed to one FaceTracker
MaxTrackerFrames == 16

\* an observation with landmarks and one without
TrackerFaces == { face_data(1, 1, 1, 1, <<1, 1>>), face_data(2, 1, 1, 1, <<>>) }

smootherOnly == << cropVars, audio, api, landmarker_ts, cropperVars, use_smart_crop, pc,
                   video, float_below, ts_log, arb >>

InitSmoother ==
    /\ cb_in = <<>>
    /\ cb_out = <<>>
    /\ use_smart_crop = FALSE
    /\ float_below = {}
    /\ pc = "idle"
    /\ video = <<>>
    /\ frame_count = 0
    /\ SetCropperInit
    /\ out = NoOut
    /\ ts_log = <<>>
    /\ last_op = "init"
    /\ arb = NoArb
    /\ audio = NoAudio
    /\ api = NoApi

\* tracker.get_smoothed_position(face_data) with a face or with None
SmootherObserve ==
    /\ frame_count < MaxTrackerFrames
    /\ \E face \in { <<>> } \cup { <<f>> : f \in TrackerFaces } :
       \E r \in { get_smoothed_position(face, position_history, landmark_history) } :
          /\ position_history' = r.position_history
          /\ landmark_history' = r.landmark_history
          /\ out' = [ NoOut EXCEPT !.kind = "smoothed", !.detected = face,
                                   !.smoothed_face = r.ret ]
          /\ last_op' = IF face = <<>> THEN "lost" ELSE "observe"
    /\ frame_count' = frame_count + 1
    /\ UNCHANGED smootherOnly

\* tracker.reset()
SmootherReset ==
    /\ frame_count > 0
    /\ \E st \in { face_tracker_reset(cropper) } :
          /\ position_history' = st.position_history
          /\ landmark_history' = st.landmark_history
          /\ landmarker_ts' = st.landmarker_ts
    /\ frame_count' = 0
    /\ out' = NoOut
    /\ last_op' = "reset"
    /\ UNCHANGED << cropVars, audio, api, cropperVars, use_smart_crop, pc, video, float_below,
                    ts_log, arb >>

NextSmoother == SmootherObserve \/ SmootherReset

SpecSmoother == InitSmoother /\ [][NextSmoother]_vars

(***************************************************************************)
(* POST /generate and its background task process_video_task               *)
(***************************************************************************)
\* POST /generate requests received
MaxRequests == 3

Urls == {"url_a", "url_b"}

\* the fields of a ClipRequest that the handler and the task branch on
ClipRequests == [ url : Urls, output_name : {"none", "my_clip"} ]

\* everything but the API server's state and last_op
apiOnly == << cropVars, audio, trackerVars, cropperVars, use_smart_crop, pc, video,
              frame_count, float_below, out, ts_log, arb >>

\* background_tasks.add_task(process_video_task, request)
new_video_task(request) ==
    [ fn |-> "process_video_task", request |-> request, pc |-> "downloader",
      output_filename |-> "none", printed |-> "Starting processing", raised |-> FALSE ]

\* generate_clip: the task is added, then the body is returned
generate_clip(server, request) ==
    [ server EXCEPT
        !.tasks = Append(@, new_video_task(request)),
        !.responses = Append(@, [ status_code |-> 200,
                                  message |-> "Video processing started",
                                  url |-> request.url ]) ]

\* a task whose exceptions outside the two inner try blocks leave the task
process_video_task_unguarded(task, ok) ==
    CASE task.pc = "downloader" ->
           IF ok THEN [ task EXCEPT !.pc = "download" ]
           ELSE [ task EXCEPT !.pc = "returned", !.raised = TRUE ]
      [] task.pc = "download" ->
           IF ok THEN [ task EXCEPT !.pc = "processor", !.printed = "Downloading video" ]
           ELSE [ task EXCEPT !.pc = "returned", !.printed = "Error downloading video" ]
      [] task.pc = "processor" ->
           IF ok THEN [ task EXCEPT !.pc = "process_video",
                          !.output_filename = IF task.request.output_name # "none"
                                              THEN task.request.output_name ELSE "none" ]
           ELSE [ task EXCEPT !.pc = "returned", !.raised = TRUE ]
      [] task.pc = "process_video" ->
           IF ok THEN [ task EXCEPT !.pc = "returned", !.printed = "Successfully created clip" ]
           ELSE [ task EXCEPT !.pc = "returned", !.printed = "Error processing video" ]

\* one step of process_video_task: VideoDownloader(), download, VideoProcessor(...),
\* process_video, each returning (ok) or raising an Exception
process_video_task(task, ok) ==
    CASE task.pc = "downloader" ->
           IF ok THEN [ task EXCEPT !.pc = "download" ]
           ELSE [ task EXCEPT !.pc = "returned",
                              !.printed = "Unexpected error in background task" ]
      [] task.pc = "download" ->
           IF ok THEN [ task EXCEPT !.pc = "processor", !.printed = "Downloading video" ]
           ELSE [ task EXCEPT !.pc = "returned", !.printed = "Error downloading video" ]
      [] task.pc = "processor" ->
           IF ok THEN [ task EXCEPT !.pc = "process_video",
                          !.output_filename = IF task.request.output_name # "none"
                                              THEN task.request.output_name ELSE "none" ]
           ELSE [ task EXCEPT !.pc = "returned",
                              !.printed = "Unexpected error in background task" ]
      [] task.pc = "process_video" ->
           IF ok THEN [ task EXCEPT !.pc = "returned", !.printed = "Successfully created clip" ]
           ELSE [ task EXCEPT !.pc = "returned", !.printed = "Error processing video" ]

InitGenerate ==
    /\ cb_in = <<>>
    /\ cb_out = <<>>
    /\ use_smart_crop = FALSE
    /\ float_below = {}
    /\ pc = "idle"
    /\ video = <<>>
    /\ frame_count = 0
    /\ SetCropperInit
    /\ out = NoOut
    /\ ts_log = <<>>
    /\ last_op = "init"
    /\ arb = NoArb
    /\ audio = NoAudio
    /\ api = [ app |-> "generate", responses |-> <<>>, tasks |-> <<>> ]

\* POST /generate with a valid body
PostGenerate ==
    /\ Len(api.responses) < MaxRequests
    /\ \E request \in ClipRequests : api' = generate_clip(api, request)
    /\ last_op' = "generate"
    /\ UNCHANGED apiOnly

\* a scheduled task runs its next step
VideoTaskStep ==
    /\ \E i \in 1 .. Len(api.tasks) : \E ok \in BOOLEAN :
          /\ api.tasks[i].pc # "returned"
          /\ api' = [ api EXCEPT !.tasks[i] = process_video_task(@, ok) ]
    /\ last_op' = "task"
    /\ UNCHANGED apiOnly

NextGenerate == PostGenerate \/ VideoTaskStep

SpecGenerate == InitGenerate /\ [][NextGenerate]_vars

(***************************************************************************)
(* identify_active_speaker on a stream of frames with two or more faces.   *)
(* Here arb records the raw votes: vote is the vote of the last frame,      *)
(* same_run the number of consecutive frames, up to the last one, with that *)
(* vote (counted up to min_speaker_switch_frames), before the speaker that  *)
(* was committed when the last frame arrived, ret and before_ret the values *)
(* returned for the last frame and for the one before (NoSpeaker when there *)
(* was none).                                                               *)
(***************************************************************************)
NoVotes ==
    [ vote |-> NoSpeaker, same_run |-> 0, before |-> NoSpeaker, ret |-> NoSpeaker,
      before_ret |-> NoSpeaker ]

InitVotes ==
    /\ cb_in = <<>>
    /\ cb_out = <<>>
    /\ use_smart_crop = TRUE
    /\ float_below = {}
    /\ pc = "idle"
    /\ video = <<>>
    /\ frame_count = 0
    /\ SetCropperInit
    /\ out = NoOut
    /\ ts_log = <<>>
    /\ last_op = "init"
    /\ arb = NoVotes
    /\ audio = NoAudio
    /\ api = NoApi

\* smart_cropper.identify_active_speaker(faces, frame_idx) with nfaces >= 2
\* faces whose correlations are confs
VotesIdentify ==
    /\ \E nfaces \in 2 .. MaxFaces :
       \E confs \in [ 1 .. nfaces -> Confidences ] :
       \E r \in { identify_active_speaker(nfaces, confs, current_speaker_id,
                                          speaker_stability_counter, detectors,
                                          frame_count, speaker_timeline) } :
         /\ current_speaker_id' = r.current_speaker_id
         /\ speaker_stability_counter' = r.speaker_stability_counter
         /\ detectors' = r.detectors
         /\ arb' = [ vote |-> r.vote,
                     same_run |-> IF arb.same_run > 0 /\ r.vote = arb.vote
                                  THEN Min(arb.same_run + 1, min_speaker_switch_frames)
                                  ELSE 1,
                     before |-> current_speaker_id,
                     ret |-> r.ret,
                     before_ret |-> arb.ret ]
    /\ last_op' = "identify"
    /\ UNCHANGED << cropVars, audio, api, trackerVars, crop_history, use_smart_crop, pc,
                    video, frame_count, float_below, out, ts_log >>

\* smart_cropper.reset()
VotesReset ==
    /\ last_op = "identify"
    /\ SetCropper(smart_cropper_reset(cropper))
    /\ arb' = NoVotes
    /\ last_op' = "reset"
    /\ UNCHANGED << cropVars, audio, api, use_smart_crop, pc, video, frame_count,
                    float_below, out, ts_log >>

NextVotes == VotesIdentify \/ VotesReset

SpecVotes == InitVotes /\ [][NextVotes]_vars

(***************************************************************************)
(* One SmartCropper processing several clips in sequence, as the loop of   *)
(* process_viral_task does with its VideoProcessor, next to a twin that is  *)
(* constructed anew for every clip.  The variables hold the reused cropper; *)
(* audio.twin and audio.twin_out the state and the output of the twin,      *)
(* audio.clip the number of clips started and audio.earlier the frames of   *)
(* the earlier clips.                                                       *)
(***************************************************************************)
\* clips processed by one VideoProcessor
MaxClips == 2

\* SmartCropper() after __init__ (lines 29-53)
new_smart_cropper ==
    [ position_history |-> <<>>, landmark_history |-> <<>>, landmarker_ts |-> <<>>,
      crop_history |-> <<>>, current_speaker_id |-> NoSpeaker,
      speaker_stability_counter |-> 0, detectors |-> fresh_detectors ]

\* the raw clips: frame size of the source video, cut by ffmpeg
SequenceVideos ==
    { [ frame |-> size, fps |-> <<OUTPUT_FPS, 1>>, debug_mode |-> FALSE ] :
      size \in TwinFrameSizes }

InitSequence ==
    /\ cb_in = <<>>
    /\ cb_out = <<>>
    /\ use_smart_crop = TRUE
    /\ float_below \in { {}, {2} }
    /\ pc = "idle"
    /\ video = <<>>
    /\ frame_count = 0
    /\ SetCropperInit
    /\ out = NoOut
    /\ ts_log = <<>>
    /\ last_op = "init"
    /\ arb = NoArb
    /\ api = NoApi
    /\ audio = [ fn |-> "sequence", clip |-> 0, earlier |-> 0, speaker_timeline |-> <<>>,
                 twin |-> new_smart_cropper, twin_out |-> NoOut ]

\* processor.process_video(raw_clip_path) up to the frame loop: preprocess_video
\* stores the clip's timeline and reset() is called; the twin is constructed,
\* preprocesses the same clip and is reset
SequenceStartClip ==
    /\ audio.fn = "sequence"
    /\ audio.clip < MaxClips
    /\ \E v \in SequenceVideos : video' = v
    /\ SetCropper(smart_cropper_reset(cropper))
    /\ \E tl \in PipelineTimelines :
          audio' = [ audio EXCEPT !.clip = @ + 1,
                                  !.earlier = @ + frame_count,
                                  !.speaker_timeline = tl,
                                  !.twin = smart_cropper_reset(new_smart_cropper),
                                  !.twin_out = NoOut ]
    /\ frame_count' = 0
    /\ pc' = "running"
    /\ out' = NoOut
    /\ ts_log' = <<>>
    /\ last_op' = "start"
    /\ UNCHANGED << cropVars, api, use_smart_crop, float_below, arb >>

\* process_frame(frame, frame_count) on both croppers
SequenceFrame ==
    /\ audio.fn = "sequence"
    /\ pc = "running"
    /\ frame_count < MaxFrames
    /\ timestamp_accepted(landmarker_ts, output_timestamp(frame_count))
    /\ \E detected \in Detections :
       \E r \in { process_frame(detected, video.frame, output_timestamp(frame_count),
                                cropper, float_below, frame_count, audio.speaker_timeline) } :
       \E t \in { process_frame(detected, video.frame, output_timestamp(frame_count),
                                audio.twin, float_below, frame_count,
                                audio.speaker_timeline) } :
           /\ SetCropper(r.st)
           /\ out' = r.out
           /\ audio' = [ audio EXCEPT !.twin = t.st, !.twin_out = t.out ]
    /\ ts_log' = Append(ts_log, output_timestamp(frame_count))
    /\ frame_count' = frame_count + 1
    /\ last_op' = "frame"
    /\ UNCHANGED << cropVars, api, use_smart_crop, pc, video, float_below, arb >>

NextSequence == SequenceStartClip \/ SequenceFrame

SpecSequence == InitSequence /\ [][NextSequence]_vars

(***************************************************************************)
(* POST /viral and its background task process_viral_task.  A path is the  *)
(* record [dir, name, i]; api.files holds the files on disk with the job    *)
(* that last wrote each; api.interference collects what a job did to a file *)
(* last written by another job that has not finished.                       *)
(***************************************************************************)
\* POST /viral requests received
MaxJobs == 2

\* len(viral_candidates[:request.limit]) for the transcripts considered
CandidateCounts == {0, 1}

\* clip.title as chosen by the curator
ClipTitles == {"hook", "story"}

\* downloader.download(url, audio_only=True): downloads/<title>.mp3
audio_path_of(url) == [ dir |-> "downloads", name |-> url, i |-> 0, ext |-> "mp3" ]

\* str(Path(audio_path).parent / "transcript_words.json")
transcript_json_path_of(audio_path) ==
    [ dir |-> audio_path.dir, name |-> "transcript_words", i |-> 0, ext |-> "json" ]

\* downloader.download(url): downloads/<title>.mp4
video_path_of(url) == [ dir |-> "downloads", name |-> url, i |-> 0, ext |-> "mp4" ]

\* clip_manager.extract_clip(..., f"raw_{i}_{clip.title}"): outputs/clips/raw_<i>_<title>.mp4
raw_clip_path_of(i, title) == [ dir |-> "outputs/clips", name |-> title, i |-> i, ext |-> "mp4" ]

\* process_video(raw_clip_path): outputs/<stem>_smart.mp4
final_output_of(raw_clip_path) == [ raw_clip_path EXCEPT !.dir = "outputs", !.ext = "smart.mp4" ]

\* create_metadata_json: output_path.replace('.mp4', '_metadata.json')
metadata_path_of(final_output) == [ final_output EXCEPT !.ext = "smart_metadata.json" ]

\* the other jobs whose task has not returned
running_others(server, j) ==
    { k \in 1 .. Len(server.jobs) : k # j /\ server.jobs[k].pc # "done" }

\* what job j touching path does to the other running jobs
touched(server, j, path, how) ==
    IF \E f \in server.files : f.path = path /\ f.writer \in running_others(server, j)
    THEN { how } ELSE {}

exists(server, path) == \E f \in server.files : f.path = path

\* job j opens path for reading
read_file(server, j, path) ==
    [ server EXCEPT !.interference = @ \cup touched(server, j, path, "read") ]

\* job j creates or overwrites path
write_file(server, j, path) ==
    [ server EXCEPT
        !.interference = @ \cup touched(server, j, path, "overwrite"),
        !.files = { f \in @ : f.path # path } \cup { [ path |-> path, writer |-> j ] } ]

\* files_to_delete.append(path)
mark(server, j, path) ==
    [ server EXCEPT !.jobs[j].files_to_delete = Append(@, path) ]

\* cleanup_job_files(files_to_delete) called by job j: every listed file that
\* exists is removed
cleanup_job_files(server, j) ==
    LET listed == { server.jobs[j].files_to_delete[n] :
                        n \in 1 .. Len(server.jobs[j].files_to_delete) }
    IN  [ server EXCEPT
            !.interference =
                @ \cup UNION { touched(server, j, path, "delete") : path \in listed },
            !.files = { f \in @ : f.path \notin listed } ]

\* the handler "except Exception" of lines 269-276
viral_task_failed(server, j) ==
    cleanup_job_files([ server EXCEPT !.jobs[j].status = "failed",
                                      !.jobs[j].pc = "done",
                                      !.jobs[j].error = "exception" ], j)

\* after clip current_clip: the next clip, or the end of the loop
next_clip(server, j) ==
    IF server.jobs[j].current_clip < server.jobs[j].total_clips
    THEN [ server EXCEPT !.jobs[j].current_clip = @ + 1, !.jobs[j].pc = "extract_clip" ]
    ELSE [ server EXCEPT !.jobs[j].pc = "complete" ]

\* generate_viral: the job is registered and its task scheduled
generate_viral(server, url) ==
    [ server EXCEPT
        !.jobs = Append(@, [ url |-> url, status |-> "pending", pc |-> "download_audio",
                             files_to_delete |-> <<>>, total_clips |-> 0,
                             current_clip |-> 0, title |-> "none", error |-> "none" ]) ]

\* one step of process_viral_task for job j; outcome is what the step's
\* external call does: "ok", "raise", and for the transcription "no_words",
\* for the extraction "none", for the curation [raised, n, title]
process_viral_task(server, j, outcome) ==
    LET job == server.jobs[j]
        audio_path == audio_path_of(job.url)
        transcript_json_path == transcript_json_path_of(audio_path)
        video_path == video_path_of(job.url)
        raw_clip_path == raw_clip_path_of(job.current_clip, job.title)
        final_output == final_output_of(raw_clip_path)
        metadata_path == metadata_path_of(final_output)
    IN  CASE job.pc = "download_audio" ->
               IF outcome = "ok"
               THEN [ mark(write_file(server, j, audio_path), j, audio_path)
                        EXCEPT !.jobs[j].status = "processing", !.jobs[j].pc = "transcribe" ]
               ELSE viral_task_failed(server, j)
          [] job.pc = "transcribe" ->
               IF outcome = "ok"
               THEN [ mark(write_file(read_file(server, j, audio_path), j,
                                      transcript_json_path), j, transcript_json_path)
                        EXCEPT !.jobs[j].pc = "curate" ]
               ELSE IF outcome = "no_words"
               THEN [ mark(read_file(server, j, audio_path), j, transcript_json_path)
                        EXCEPT !.jobs[j].pc = "curate" ]
               ELSE viral_task_failed(server, j)
          [] job.pc = "curate" ->
               IF outcome.raised \/ ~ exists(server, transcript_json_path)
               THEN viral_task_failed(server, j)
               ELSE IF outcome.n = 0
               THEN [ read_file(server, j, transcript_json_path)
                        EXCEPT !.jobs[j].status = "failed",
                               !.jobs[j].error = "No viral candidates found",
                               !.jobs[j].pc = "done" ]
               ELSE [ read_file(server, j, transcript_json_path)
                        EXCEPT !.jobs[j].total_clips = outcome.n,
                               !.jobs[j].title = outcome.title,
                               !.jobs[j].pc = "download_video" ]
          [] job.pc = "download_video" ->
               IF outcome = "ok"
               THEN [ mark(write_file(server, j, video_path), j, video_path)
                        EXCEPT !.jobs[j].current_clip = 1, !.jobs[j].pc = "extract_clip" ]
               ELSE viral_task_failed(server, j)
          [] job.pc = "extract_clip" ->
               IF outcome = "ok"
               THEN [ mark(write_file(read_file(server, j, video_path), j, raw_clip_path),
                           j, raw_clip_path)
                        EXCEPT !.jobs[j].pc = "process_clip" ]
               ELSE IF outcome = "none"
               THEN next_clip(server, j)
               ELSE viral_task_failed(server, j)
          [] job.pc = "process_clip" ->
               IF outcome = "ok"
               THEN next_clip(
                      mark(write_file(
                             mark(write_file(read_file(server, j, raw_clip_path), j,
                                             final_output), j, final_output),
                             j, metadata_path), j, metadata_path), j)
               ELSE next_clip(read_file(server, j, raw_clip_path), j)
          [] job.pc = "complete" ->
               cleanup_job_files([ server EXCEPT !.jobs[j].status = "completed",
                                                 !.jobs[j].pc = "done" ], j)

\* what the external call of the step at pc can do
viral_outcomes(step) ==
    CASE step = "transcribe" -> {"ok", "no_words", "raise"}
      [] step = "curate" ->
           { [ raised |-> TRUE, n |-> 0, title |-> "none" ] }
           \cup [ raised : {FALSE}, n : CandidateCounts, title : ClipTitles ]
      [] step = "extract_clip" -> {"ok", "none", "raise"}
      [] step = "complete" -> {"ok"}
      [] OTHER -> {"ok", "raise"}

InitViral ==
    /\ cb_in = <<>>
    /\ cb_out = <<>>
    /\ use_smart_crop = TRUE
    /\ float_below = {}
    /\ pc = "idle"
    /\ video = <<>>
    /\ frame_count = 0
    /\ SetCropperInit
    /\ out = NoOut
    /\ ts_log = <<>>
    /\ last_op = "init"
    /\ arb = NoArb
    /\ audio = NoAudio
    /\ api = [ app |-> "viral", jobs |-> <<>>, files |-> {}, interference |-> {} ]

\* POST /viral
PostViral ==
    /\ Len(api.jobs) < MaxJobs
    /\ \E url \in Urls : api' = generate_viral(api, url)
    /\ last_op' = "viral"
    /\ UNCHANGED apiOnly

\* the task of a job runs its next step
ViralTaskStep ==
    /\ \E j \in 1 .. Len(api.jobs) :
          /\ api.jobs[j].pc # "done"
          /\ \E outcome \in viral_outcomes(api.jobs[j].pc) :
                api' = process_viral_task(api, j, outcome)
    /\ last_op' = "task"
    /\ UNCHANGED apiOnly

NextViral == PostViral \/ ViralTaskStep

SpecViral == InitViral /\ [][NextViral]_vars

(***************************************************************************)
(* Properties of the crop rectangle                                        *)
(***************************************************************************)
InsideFrame(box, frame) ==
    /\ 0 <= box[1]
    /\ 0 <= box[2]
    /\ box[1] + box[3] <= frame[1]
    /\ box[2] + box[4] <= frame[2]

\* C2: the crop rectangle returned by calculate_crop_box and by
\* calculate_smart_crop lies fully inside the source frame, for every face
\* observation (including none) and every frame size
C2_CropInsideFrame ==
    cb_out # <<>> => InsideFrame(cb_out, cb_in.frame)

\* a face near the right/bottom edge of a frame too low for the crop: the
\* candidate was clamped and shrunk
C2_Witness ==
    /\ cb_out # <<>>
    /\ cb_in.faces # <<>>
    /\ cb_in.fn = "calculate_smart_crop"
    /\ cb_out[1] + cb_out[3] = cb_in.frame[1]
    /\ cb_out[2] = 0 /\ cb_out[4] = cb_in.frame[2]

\* C3 (as claimed): with a face, MIN_CROP_WIDTH <= width <= frame_width / MAX_ZOOM
C3_WidthWithinBounds ==
    (cb_out # <<>> /\ cb_in.fn = "calculate_crop_box" /\ cb_in.faces # <<>>)
        => /\ MIN_CROP_WIDTH <= cb_out[3]
           /\ cb_out[3] * MAX_ZOOM <= cb_in.frame[1]

\* the frame can hold a crop of the minimum width under the zoom cap and at
\* the target aspect ratio
FrameHoldsMinCrop(frame) ==
    /\ frame[1] \div MAX_ZOOM >= MIN_CROP_WIDTH
    /\ Trunc(frame[2] * ASPECT_W, ASPECT_H) >= MIN_CROP_WIDTH

\* C3 (amended): with a face, width <= frame_width / MAX_ZOOM always, and
\* MIN_CROP_WIDTH <= width when the frame can hold a crop of the minimum width
C3_WidthWithinBoundsAmended ==
    (cb_out # <<>> /\ cb_in.fn = "calculate_crop_box" /\ cb_in.faces # <<>>)
        => /\ cb_out[3] * MAX_ZOOM <= cb_in.frame[1]
           /\ FrameHoldsMinCrop(cb_in.frame) => MIN_CROP_WIDTH <= cb_out[3]

\* a small face in a frame that holds the minimum crop: the minimum-width
\* clamp decided the width
C3_Witness ==
    /\ cb_out # <<>>
    /\ cb_in.fn = "calculate_crop_box"
    /\ cb_in.faces # <<>>
    /\ FrameHoldsMinCrop(cb_in.frame)
    /\ cb_in.faces[1].width = 0
    /\ cb_out[3] = MIN_CROP_WIDTH

\* C4: on every path of calculate_crop_box width and height keep the aspect
\* ratio 9:16 up to integer truncation, |16 * width - 9 * height| < 16
C4_AspectRatio ==
    (cb_out # <<>> /\ cb_in.fn = "calculate_crop_box")
        => Abs(ASPECT_H * cb_out[3] - ASPECT_W * cb_out[4]) < ASPECT_H

\* the crop was shrunk to the frame height
C4_Witness ==
    /\ cb_out # <<>>
    /\ cb_in.fn = "calculate_crop_box"
    /\ cb_in.faces # <<>>
    /\ cb_out[4] = cb_in.frame[2]
    /\ cb_out[3] < crop_dimensions(0, 0, cb_in.frame[1])[1]


(***************************************************************************)
(* Properties of the frame loop                                            *)
(***************************************************************************)
\* two optional face values are the same rational values
SameFace(a, b) ==
    IF a = <<>> \/ b = <<>> THEN a = b
    ELSE /\ a[1].x_center * b[1].den = b[1].x_center * a[1].den
         /\ a[1].y_center * b[1].den = b[1].y_center * a[1].den
         /\ a[1].width * b[1].den = b[1].width * a[1].den
         /\ a[1].height * b[1].den = b[1].height * a[1].den
         /\ Len(a[1].eyes_center) = Len(b[1].eyes_center)
         /\ \A i \in 1 .. Len(a[1].eyes_center) :
                a[1].eyes_center[i] * b[1].den = b[1].eyes_center[i] * a[1].den

\* C5: get_smoothed_position fed a null observation after k >= 1 real ones
\* returns the value it returned for the previous frame and leaves the
\* history buffers unchanged
C5_NullKeepsSmoothed ==
    [][ ( /\ pc = "running" /\ pc' = "running"
          /\ frame_count' = frame_count + 1
          /\ out'.kind = "basic"
          /\ out'.detected = <<>>
          /\ position_history # <<>> )
        => /\ SameFace(out'.smoothed_face, out.smoothed_face)
           /\ position_history' = position_history
           /\ landmark_history' = landmark_history ]_vars

\* C6: in process_frame a frame without a detected face, after a frame with
\* one, is cropped from the most recent known face position and is not
\* treated as a frame without faces
C6_LostFaceKeepsPosition ==
    ( /\ last_op = "frame" /\ pc = "running"
      /\ out.kind = "smart"
      /\ out.detected = <<>>
      /\ position_history # <<>> )
    => /\ out.num_faces = 1
       /\ out.crop_box =
            calculate_crop_box(
                get_smoothed_position(<<>>, position_history, landmark_history).ret,
                video.frame[1], video.frame[2])

StrictlyIncreasing(s) == \A i \in 1 .. Len(s) - 1 : s[i] < s[i + 1]

\* C8: within one process_video run the timestamps passed to
\* detect_for_video are strictly increasing, in every mode
C8_TimestampsIncrease == StrictlyIncreasing(ts_log)

\* the largest rectangle of aspect ratio 9:16 that fits the frame, centred
CentreCrop(frame) ==
    LET tall == (frame[2] * 9) \div 16 > frame[1]
        w == IF tall THEN frame[1] ELSE (frame[2] * 9) \div 16
        h == IF tall THEN (frame[1] * 16) \div 9 ELSE frame[2]
    IN  << (frame[1] - w) \div 2, (frame[2] - h) \div 2, w, h >>

\* C10: while no face has been detected on any frame of the clip, the crop
\* rectangle emitted by process_frame is the default centre crop
C10_NoFaceCentreCrop ==
    ( /\ last_op = "frame" /\ pc = "running"
      /\ out.kind = "smart"
      /\ position_history = <<>> )
    => /\ out.smoothed_crop = CentreCrop(video.frame)
       /\ out.applied_crop = CentreCrop(video.frame)

(***************************************************************************)
(* Properties of the speaker arbitration and of reset                      *)
(***************************************************************************)
\* C1: with two or more faces the committed active speaker changes only on
\* a frame that completes a run of at least min_speaker_switch_frames
\* consecutive raw votes differing from the committed speaker
C1_SwitchNeedsFullRun ==
    (last_op = "identify" /\ arb.switched)
        => arb.differing_run >= min_speaker_switch_frames

\* the last call committed a face as the new active speaker
C1_Witness ==
    /\ last_op = "identify"
    /\ arb.switched
    /\ current_speaker_id # NoSpeaker

\* C7: with two faces of which only face A ever produces a non-zero speaking
\* confidence, whichever index A has, the speaker reported by
\* identify_active_speaker is A on every frame from the first one with the
\* minimum history, and never the other face
C7_OnlySpeakerReported ==
    (last_op = "identify" /\ arb.only \in 0 .. MaxFaces - 1)
        => arb.ret = arb.only

\* C9: after SmartCropper.reset() the position, landmark and crop histories
\* and every detector's mouth and audio histories are empty, no speaker is
\* committed and the stability counter is 0
C9_ResetClearsState ==
    last_op = "reset"
        => /\ position_history = <<>>
           /\ landmark_history = <<>>
           /\ crop_history = <<>>
           /\ \A d \in DOMAIN detectors :
                  detectors[d].mouth_history = 0 /\ detectors[d].audio_history = 0
           /\ current_speaker_id = NoSpeaker
           /\ speaker_stability_counter = 0

\* reset() was called with every piece of temporal state non-empty
C9_Witness == last_op = "reset" /\ arb.dirty

(***************************************************************************)
(* Properties of a static scene                                            *)
(***************************************************************************)
\* the face anchor (eyes centre, else box centre) is at half the frame width
AnchorCentred(f) ==
    LET fd == f[1] IN 2 * focus_point(fd)[1] = fd.den

\* the horizontal centre of box is within two pixels of the frame's centre
CentredOn(box, frame) == Abs(2 * box[1] + box[3] - frame[1]) <= 4

\* C11: a single static face with its anchor at the horizontal centre of the
\* frame: once the smoothing windows have filled, the crop rectangle emitted
\* is the same as on the previous frame and is horizontally centred on the
\* face anchor, for every frame size and face size
C11_StaticCropStableCentred ==
    [][ ( /\ "face" \in DOMAIN video
          /\ AnchorCentred(<<video.face>>)
          /\ frame_count >= smoothing_window
          /\ frame_count' = frame_count + 1 )
        => /\ out'.applied_crop = out.applied_crop
           /\ CentredOn(out'.applied_crop, video.frame) ]_vars

\* C12: while the same observation is fed on every frame, the output of
\* get_smoothed_position (position, size, eyes centre) is that observation,
\* and smooth_crop_box, fed the same rectangle on every frame, returns that
\* rectangle
C12_ConstantInputFixedPoint ==
    (last_op = "frame" /\ "face" \in DOMAIN video)
        => /\ SameFace(out.smoothed_face, <<video.face>>)
           /\ out.crop_box = calculate_crop_box(<<video.face>>, video.frame[1], video.frame[2])
           /\ out.smoothed_crop = out.crop_box

(***************************************************************************)
(* Properties of the audio analysis                                        *)
(***************************************************************************)
\* C13: the voice-activity segments of both paths are sorted by start time,
\* pairwise non-overlapping, and each ends no earlier than it starts,
\* including the segment closed at the end of the audio
C13_SegmentsOrdered ==
    audio.fn \in {"_webrtc_vad", "_energy_based_vad"}
        => /\ \A k \in 1 .. Len(audio.voice_segments) :
                  audio.voice_segments[k][1] <= audio.voice_segments[k][2]
           /\ \A k \in 1 .. Len(audio.voice_segments) - 1 :
                  /\ audio.voice_segments[k][1] <= audio.voice_segments[k + 1][1]
                  /\ audio.voice_segments[k][2] <= audio.voice_segments[k + 1][1]

\* a run returned two segments, the last one closed at the end of the audio
C13_Witness ==
    /\ audio.fn \in {"_webrtc_vad", "_energy_based_vad"}
    /\ audio.pc = "returned"
    /\ Len(audio.voice_segments) >= 2
    /\ audio.is_speaking
    /\ audio.voice_segments[Len(audio.voice_segments)][2] = audio.len

\* C14: the energy array and the speaker-label array built by
\* preprocess_video have the same number of entries, the number of video
\* frames to be processed
C14_TimelineArraysEqualLength ==
    (audio.fn = "preprocess_video" /\ audio.pc = "done")
        => /\ audio.audio_energy_per_frame = Len(audio.speaker_timeline)
           /\ Len(audio.speaker_timeline) = audio.total_frames

C20_LabelOnlyInsideTurn ==
    (audio.fn = "preprocess_video" /\ audio.pc = "done")
        => /\ Len(audio.speaker_timeline) = audio.total_frames
           /\ \A f \in 1 .. Len(audio.speaker_timeline) :
                  audio.speaker_timeline[f] # "none"
                    => \E k \in 1 .. Len(audio.diarization.timeline) :
                          LET turn == audio.diarization.timeline[k]
                          IN  /\ turn[3] = audio.speaker_timeline[f]
                              /\ Trunc(turn[1] * OUTPUT_FPS, 1000) <= f - 1
                              /\ f - 1 < Trunc(turn[2] * OUTPUT_FPS, 1000)

(***************************************************************************)
(* Properties of the speaker timeline in the frame loop                    *)
(***************************************************************************)
\* C16: for the same frames, process_frame with a speaker timeline that
\* labels no frame yields on every frame the same active speaker and crop
\* rectangle as with a timeline that labels every frame with one speaker
C16_TimelineNotNeeded ==
    (audio.fn = "twin" /\ last_op = "frame")
        => /\ out.active_speaker = audio.twin_out.active_speaker
           /\ out.smoothed_crop = audio.twin_out.smoothed_crop
           /\ out.applied_crop = audio.twin_out.applied_crop

\* both croppers have cropped a frame with a face, past the end of a short
\* unlabelled timeline
C16_Witness ==
    /\ audio.fn = "twin"
    /\ last_op = "frame"
    /\ frame_count >= 2
    /\ Len(audio.speaker_timeline) = 1
    /\ out.num_faces = 1
    /\ audio.twin_out.num_faces = 1

(***************************************************************************)
(* Properties of the lip-sync detector                                     *)
(***************************************************************************)
\* C17: after construction or reset, is_speaking returns confidence 0 and
\* is_speaking = false until window_size // 2 samples have accumulated,
\* whatever the mouth openings and audio energies are
C17_NoConfidenceBeforeHalfWindow ==
    (last_op = "is_speaking" /\ Len(detectors[0].mouth_history) < window_size \div 2)
        => ~ out.is_speaking /\ out.confidence = << 0, 1 >>

\* four samples in which an open mouth follows the audio exactly
C17_Witness ==
    /\ last_op = "is_speaking"
    /\ detectors[0].mouth_history = << 0, 3, 0, 3 >>
    /\ detectors[0].audio_history = << 0, 1, 0, 1 >>
    /\ ~ out.is_speaking

\* C18: if all mouth openings in the window are equal, or all audio energies
\* are, correlate_with_audio returns 0 without a division by zero and
\* is_speaking reports false with confidence 0
C18_ZeroVarianceNoCorrelation ==
    ( /\ last_op = "is_speaking"
      /\ AllEqual(detectors[0].mouth_history) \/ AllEqual(detectors[0].audio_history) )
        => /\ out.correlation = << 0, 1 >>
           /\ correlate_with_audio(detectors[0].mouth_history, detectors[0].audio_history) = << 0, 1 >>
           /\ ~ out.is_speaking
           /\ out.confidence = << 0, 1 >>

\* past the minimum history, a mouth held open while the audio varies
C18_Witness ==
    /\ last_op = "is_speaking"
    /\ Len(detectors[0].mouth_history) >= window_size \div 2
    /\ AllEqual(detectors[0].mouth_history)
    /\ detectors[0].mouth_history[1] = 3
    /\ ~ AllEqual(detectors[0].audio_history)
    /\ detectors[0].audio_history[Len(detectors[0].audio_history)] = 1

(***************************************************************************)
(* Properties of identify_active_speaker with fewer than two faces         *)
(***************************************************************************)
\* C19: with exactly one face identify_active_speaker reports index 0 and
\* leaves the committed speaker, the stability counter and every lip-sync
\* history unchanged; with no face it reports no active speaker
C19_SingleFaceNoOp ==
    [][ /\ last_op' = "identify_single" =>
            /\ arb'.ret = 0
            /\ current_speaker_id' = current_speaker_id
            /\ speaker_stability_counter' = speaker_stability_counter
            /\ detectors' = detectors
        /\ last_op' = "identify_none" => arb'.ret = NoSpeaker ]_vars

\* a single-face call made while another face is committed and a switch is
\* being counted
C19_Witness ==
    /\ last_op = "identify_single"
    /\ arb.ret = 0
    /\ current_speaker_id = 1
    /\ speaker_stability_counter > 0
    /\ detectors[1].mouth_history > 0

(***************************************************************************)
(* Properties of the face smoother's histories                             *)
(***************************************************************************)
\* C21: the position history is empty after construction and after reset,
\* grows by exactly one entry per real observation up to SMOOTHING_WINDOW and
\* from then on stays at that size, the oldest entry being evicted on each
\* insert; the landmark history is never longer than the position history
C21_HistoryIsSlidingWindow ==
    /\ [] ( /\ Len(landmark_history) <= Len(position_history)
            /\ Len(position_history) <= SMOOTHING_WINDOW
            /\ last_op \in {"init", "reset"} =>
                   position_history = <<>> /\ landmark_history = <<>> )
    /\ [][ /\ last_op' = "observe" =>
               position_history' =
                   IF Len(position_history) < SMOOTHING_WINDOW
                   THEN Append(position_history, out'.detected[1])
                   ELSE Append(Tail(position_history), out'.detected[1])
           /\ last_op' = "lost" => position_history' = position_history ]_vars

\* an insert into a full history whose oldest and newest entries differ
C21_Witness ==
    /\ last_op = "observe"
    /\ frame_count > SMOOTHING_WINDOW
    /\ Len(position_history) = SMOOTHING_WINDOW
    /\ position_history[1] # position_history[SMOOTHING_WINDOW]
    /\ Len(landmark_history) < Len(position_history)

(***************************************************************************)
(* Properties of POST /generate                                            *)
(***************************************************************************)
\* C22: every POST /generate is answered 200 with "Video processing started"
\* and the request's url and schedules exactly one background task; the
\* answer is the same whatever the task later does, and no exception of the
\* download or of the processing leaves the task
C22_GenerateAlwaysAccepted ==
    /\ Len(api.tasks) = Len(api.responses)
    /\ \A i \in 1 .. Len(api.responses) :
          /\ api.responses[i] = [ status_code |-> 200,
                                  message |-> "Video processing started",
                                  url |-> api.tasks[i].request.url ]
          /\ api.tasks[i].fn = "process_video_task"
          /\ ~ api.tasks[i].raised

\* a task that failed while constructing the processor and one that failed
\* in the download, both answered before they ran
C22_Witness ==
    /\ Len(api.responses) >= 2
    /\ api.tasks[1].pc = "returned"
    /\ api.tasks[1].printed = "Unexpected error in background task"
    /\ api.tasks[2].pc = "returned"
    /\ api.tasks[2].printed = "Error downloading video"
    /\ api.responses[1].status_code = 200

(***************************************************************************)
(* Properties of the stability counter                                     *)
(***************************************************************************)
\* C23: with two or more faces a raw vote equal to the committed speaker
\* resets the stability counter to 0, and after every frame
\* 0 <= counter < min_speaker_switch_frames
C23_CounterResetAndBounded ==
    /\ speaker_stability_counter >= 0
    /\ speaker_stability_counter < min_speaker_switch_frames
    /\ (last_op = "identify" /\ arb.differing_run = 0 /\ ~ arb.switched)
           => speaker_stability_counter = 0

\* an agreeing vote for a committed face
C23_Witness ==
    /\ last_op = "identify"
    /\ arb.differing_run = 0
    /\ ~ arb.switched
    /\ current_speaker_id # NoSpeaker
    /\ speaker_stability_counter = 0

\* C27: whenever identify_active_speaker commits a switch to face j, face j
\* was the raw vote on each of the min_speaker_switch_frames most recent
\* arbitrated frames
C27_SwitchTargetVotedThroughout ==
    ( /\ last_op = "identify"
      /\ current_speaker_id # arb.before
      /\ current_speaker_id # NoSpeaker )
        => arb.vote = current_speaker_id /\ arb.same_run >= min_speaker_switch_frames

\* C28: once a face is committed as the active speaker, a frame whose raw
\* vote is "no one" does not change the reported active speaker
C28_SilenceKeepsSpeaker ==
    ( /\ last_op = "identify"
      /\ arb.before # NoSpeaker
      /\ arb.vote = NoSpeaker )
        => arb.ret = arb.before_ret

(***************************************************************************)
(* Properties of a cropper reused for several clips                        *)
(***************************************************************************)
\* C24: on every frame of every clip the reused SmartCropper emits the
\* active speaker and the crop rectangles that a freshly constructed one
\* emits for the same clip, and is left in the same state
C24_ReusedCropperLikeFresh ==
    (audio.fn = "sequence" /\ last_op = "frame")
        => /\ out = audio.twin_out
           /\ cropper = audio.twin

\* the second clip, two frames in with a face, after an earlier clip of at
\* least two frames
C24_Witness ==
    /\ audio.fn = "sequence"
    /\ last_op = "frame"
    /\ audio.clip = 2
    /\ audio.earlier >= 2
    /\ frame_count >= 2
    /\ out.num_faces = 1
    /\ Len(crop_history) >= 2

(***************************************************************************)
(* Properties of the viral jobs                                            *)
(***************************************************************************)
\* C25: no file recorded in files_to_delete survives a job that has reached
\* status completed or failed
C25_FinishedJobLeavesNoFile ==
    \A j \in 1 .. Len(api.jobs) :
        (api.jobs[j].pc = "done" /\ api.jobs[j].status \in {"completed", "failed"})
            => \A n \in 1 .. Len(api.jobs[j].files_to_delete) :
                   ~ exists(api, api.jobs[j].files_to_delete[n])

\* C30: no viral job reads, overwrites or deletes a file that another
\* still-running job created
C30_JobsDoNotShareFiles == api.interference = {}

(***************************************************************************)
(* Properties of the rectangle applied by process_frame                    *)
(***************************************************************************)
\* C26: within one video process_frame appends exactly one rectangle to the
\* crop history per frame, and the smoothed rectangle lies inside the frame,
\* so that the clamp before the pixel extraction leaves it as it is and the
\* crop_box of the diagnostic info is the rectangle applied
C26_ReportedCropIsApplied ==
    /\ [] ( out.kind = "smart" =>
              /\ InsideFrame(out.smoothed_crop, video.frame)
              /\ out.applied_crop = out.smoothed_crop )
    /\ [][ ( /\ use_smart_crop
             /\ pc = "running"
             /\ last_op' = "frame"
             /\ timestamp_accepted(landmarker_ts, output_timestamp(frame_count)) )
           => crop_history' = deque_append(crop_history, out'.crop_box, smoothing_window)
       ]_vars

\* a smoothed rectangle that differs from the frame's own crop and touches
\* the right edge of the frame
C26_Witness ==
    /\ last_op = "frame"
    /\ out.kind = "smart"
    /\ out.num_faces = 1
    /\ Len(crop_history) >= 3
    /\ out.smoothed_crop # out.crop_box
    /\ out.crop_box[1] + out.crop_box[3] = video.frame[1]

(***************************************************************************)
(* Properties of the anchor inside the crop                                *)
(***************************************************************************)
\* the anchor pixel of a face in a frame: int(focus * frame size)
anchor_pixel(face, frame) ==
    << Trunc(focus_point(face)[1] * frame[1], face.den),
       Trunc(focus_point(face)[2] * frame[2], face.den) >>

\* C29: whenever the face anchor lies inside the source frame, the crop
\* rectangle returned by calculate_crop_box contains the anchor pixel
C29_CropContainsAnchor ==
    ( /\ cb_out # <<>>
      /\ cb_in.fn = "calculate_crop_box"
      /\ cb_in.faces # <<>>
      /\ 0 <= anchor_pixel(cb_in.faces[1], cb_in.frame)[1]
      /\ anchor_pixel(cb_in.faces[1], cb_in.frame)[1] < cb_in.frame[1]
      /\ 0 <= anchor_pixel(cb_in.faces[1], cb_in.frame)[2]
      /\ anchor_pixel(cb_in.faces[1], cb_in.frame)[2] < cb_in.frame[2] )
        => /\ cb_out[1] <= anchor_pixel(cb_in.faces[1], cb_in.frame)[1]
           /\ anchor_pixel(cb_in.faces[1], cb_in.frame)[1] < cb_out[1] + cb_out[3]
           /\ cb_out[2] <= anchor_pixel(cb_in.faces[1], cb_in.frame)[2]
           /\ anchor_pixel(cb_in.faces[1], cb_in.frame)[2] < cb_out[2] + cb_out[4]

=============================================================================
